---------------------------- MODULE Spec2Model ----------------------------
(***************************************************************************)
(* Model of the buffering pipeline of iptv-proxy:                          *)
(*   - CircularBuffer   (internal/buffer/circular.go)                      *)
(*   - BufferManager    (package buffer: prefetchLoop, Read, WaitForData)  *)
(*   - the response copy of StreamTranscoder.TranscodeStream               *)
(*                                                                         *)
(* Two specifications share the variables:                                 *)
(*   SpecRing    one writer task, one reader task and Close calls on a     *)
(*               CircularBuffer;                                           *)
(*   SpecSession one stream session: the prefetch goroutine, the consumer  *)
(*               (io.Copy over BufferManager.Read) and the source.         *)
(*                                                                         *)
(* CircularBuffer.Write and CircularBuffer.Read run under b.mu, so each    *)
(* action below is one locked section: from Lock (or from the return of    *)
(* cond.Wait) to the next cond.Wait or to the return.                      *)
(*                                                                         *)
(* Bytes are modelled by their position in the stream the writer sends     *)
(* (byte i has value i), so any loss, duplication or reordering shows.     *)
(***************************************************************************)
EXTENDS Integers, Sequences, FiniteSets, TLC

\* ------------------------------------------------------------------ bounds
\* size of the CircularBuffer (config.Size, scaled down)
BufSize == 4
\* longest p handed to one CircularBuffer.Write / longest Read buffer
MaxWrite == 5
MaxRead == 3
\* bytes the writer side sends in one run of the model
MaxStream == 6
\* Close calls in one run of the model
MaxCloses == 2
\* length of the source's stream in a session
MaxSource == 4
\* the scratch window of prefetchLoop (32 KB, scaled down)
ScratchLen == 2
\* the copy buffer of io.Copy (32 KB, scaled down)
CopyBuf == 2
\* config.MinThreshold ranges over 0..MaxThreshold
MaxThreshold == 2
\* config.PrefetchRatio ranges over k / RatioDen, k in 0..RatioDen
RatioDen == 2
\* ticker periods (10 ms) in the timeout (30 s) of WaitForData, scaled down
TimeoutTicks == 2
\* config.MaxRetries ranges over 0..MaxRetriesBound
MaxRetriesBound == 1
\* read errors the source returns in one run of the model
MaxErrors == 2
\* calls of FFmpegTranscoder.Close in one run of the model
MaxTCalls == 3
\* devices of one vendor that a probe of the detector confirms
MaxDevices == 2
\* longest playlist, in lines
MaxLines == 5
\* most subprocesses spawned for one transcoder
MaxSpawns == 2
\* longest configured refresh interval, in minutes
MaxInterval == 12
\* most ticks of the refresher's ticker that are followed
MaxRefreshes == 4

VARIABLES
    \* CircularBuffer fields
    data, writePos, readPos, bytesWritten, bytesRead, closed,
    \* the writer task: position, p of the Write in flight, its local
    \* `written`, and the last (n, err) a Write returned
    ppc, pbuf, pwritten, pret,
    \* the reader task: position, len(p) of the Read in flight, the last
    \* (n, err) a Read returned
    cpc, clen, cret,
    \* bytes handed to Write calls so far (position in the sender's stream)
    srcPos,
    \* history: bytes copied into the buffer, bytes returned by Read
    accepted, out,
    \* history: number of Close calls made
    closeCalls,
    \* history: the contiguous copies (lines 74 and 121) made by the Write
    \* call in progress or the last one (write), by its last locked section
    \* (pass), and by the last Read call (read)
    copyLog,
    \* BufferManager: prefetchActive, underruns, and its config
    prefetchActive, underruns, minThreshold, ratioNum,
    \* the source: length of its stream
    srcLen,
    \* prefetchLoop locals: n of the last RetryRead, `written`
    pn, lwritten,
    \* history: why prefetchLoop returned, whether it ever throttled
    exitReason, throttled,
    \* the session's context is cancelled
    cancelled,
    \* WaitForData: ticker periods elapsed in the call in progress, the
    \* value the last call returned; history: whether prefetchLoop had
    \* already returned and closed the buffer when the call began
    elapsed, wfdRet, wfdDone,
    \* bytes io.Copy has written to the response, and what it returned
    sink, copyResult,
    \* WaitForData calls Available() without b.mu, concurrently with the
    \* writer. wTrail: the values writePos has held since the consumer last
    \* synchronised with the writer (oldest first, the last one is writePos);
    \* obsAvail: what the last unlocked Available() returned
    wTrail, obsAvail,
    \* RetryManager: maxRetries, retryCount; RetryRead's locals attempt and
    \* lastErr (errors are numbered in the order the source returns them);
    \* what the last RetryRead returned
    maxRetries, retryCount, attempt, lastErr, rrRet,
    \* the source: read errors it has returned so far; history: errors and
    \* reader.Read calls within the RetryRead in progress, and retryCount
    \* when it was called
    errCount, rrFails, rrReads, rrBase,
    \* history: the BufferManager.Read in progress (or the last one) found
    \* the buffer empty, after earlier reads had drained it, while
    \* prefetchLoop was active
    starved,
    \* history: a source read was issued after the context was cancelled
    lateRead,
    \* FFmpegTranscoder: inputURL == "-", closed, cmd != nil,
    \* cmd.Process != nil, and the fields stdin, stdout, stderr: "nil", or
    \* the state "open" / "closed" of the pipe end the field holds
    hasStdin, tclosed, cmdSet, started, pipes,
    \* the subprocess has been waited for (reaped)
    reaped,
    \* t.mu: 0, or the caller that holds it
    tmu,
    \* the callers of Close: position, and what the last call returned
    kpc, kret,
    \* errs of the Close that is running
    terrs,
    \* what Start returned
    startRet,
    \* history: subprocesses cmd.Start has spawned for this transcoder
    spawns,
    \* history: the steps Close has executed, with their outcomes; calls of
    \* Close so far; callers whose call found t.mu held by a running Close
    closeLog, tcalls, kover,
    \* the machine: what the probe of each vendor finds
    probes,
    \* Selector: preferred, availableGPUs, and whether Initialize has run
    preferred, availableGPUs, initialized,
    \* what the last DetectAllDevices returned
    devices,
    \* the last call of SelectHardware: its arguments and what it returned
    selCall,
    \* FFmpegTranscoder: hardware, profile, and the arguments buildCommand
    \* returned (empty before it ran)
    thw, tprofile, cmdArgs,
    \* the configuration, the position of the stream handler, the response
    \* the client has received, and the error TranscodeStream returned
    cfg, hpc, resp, tsErr,
    \* m3u.Parse: the playlist data of the call, as its lines, and what the
    \* call returned
    plData, plResult,
    \* the Refresher: its interval, the period of the ticker of Start, the
    \* refreshes run, the fetches that succeeded, the updates of the store,
    \* the error of the last refresh, and whether Start is still looping
    refresher,
    \* the encoder subprocess behind the source: "none", "running" or
    \* "exited" (by itself, or killed by the context of exec.CommandContext)
    proc

ringVars == <<data, writePos, readPos, bytesWritten, bytesRead, closed>>
vars == <<data, writePos, readPos, bytesWritten, bytesRead, closed,
          ppc, pbuf, pwritten, pret, cpc, clen, cret, srcPos,
          accepted, out, closeCalls, copyLog,
          prefetchActive, underruns, minThreshold, ratioNum, srcLen,
          pn, lwritten, exitReason, throttled, cancelled,
          elapsed, wfdRet, wfdDone, sink, copyResult, wTrail, obsAvail,
          maxRetries, retryCount, attempt, lastErr, rrRet,
          errCount, rrFails, rrReads, rrBase, proc, starved, lateRead,
          hasStdin, tclosed, cmdSet, started, pipes, reaped, tmu, kpc, kret,
          terrs, startRet, closeLog, tcalls, kover, spawns,
          probes, preferred, availableGPUs, initialized, devices, selCall,
          thw, tprofile, cmdArgs, cfg, hpc, resp, tsErr,
          plData, plResult, refresher>>
dataVars == <<plData, plResult, refresher>>
cmdVars == <<thw, tprofile, cmdArgs>>
reqVars == <<cfg, hpc, resp, tsErr>>
hwVars == <<probes, preferred, availableGPUs, initialized, devices, selCall>>
tcVars == <<hasStdin, tclosed, cmdSet, started, pipes, reaped, tmu, kpc, kret,
            terrs, startRet, closeLog, tcalls, kover, spawns>>
retryVars == <<maxRetries, retryCount, attempt, lastErr, rrRet,
               errCount, rrFails, rrReads, rrBase>>
raceVars == <<wTrail, obsAvail>>
sessVars == <<prefetchActive, underruns, minThreshold, ratioNum, srcLen,
              pn, lwritten, exitReason, throttled, cancelled,
              elapsed, wfdRet, wfdDone, sink, copyResult>>

Min(a, b) == IF a < b THEN a ELSE b

\* the bytes i+1 .. i+n of the sender's stream
StreamBytes(i, n) == [k \in 1..n |-> i + k]

\* s is a prefix of t
IsPrefix(s, t) == Len(s) <= Len(t) /\ SubSeq(t, 1, Len(s)) = s

\* ---------------------------------------------------------- CircularBuffer
\* CircularBuffer.Available, on given cursors
AvailableNoWrap(w, r) == w - r
Available(w, r) == IF w >= r THEN w - r ELSE BufSize - r + w

\* CircularBuffer.Available called without b.mu while a Write may be running:
\* its body loads writePos twice (the comparison, then the subtraction), and
\* the loads see w1 and w2. The reader's own cursor r is stable.
AvailableUnlockedWrapped(w1, w2, r) == BufSize - r + w2
AvailableUnlocked(w1, w2, r) == IF w1 >= r THEN w2 - r ELSE BufSize - r + w2

\* CircularBuffer.Free
FreeNoReserve(w, r) == BufSize - Available(w, r)
Free(w, r) == BufSize - Available(w, r) - 1

\* writePos / readPos after a contiguous copy
AdvanceNoWrap(pos, contiguous) == pos + contiguous
Advance(pos, contiguous) == (pos + contiguous) % BufSize

\* lines 68-71 and 115-118: the length of the next contiguous copy
ContiguousByByte(pos, n) == 1
Contiguous(pos, n) == Min(BufSize - pos, n)

\* the value of a set of one element: Only({f(x) : x \in {e}}) is f(e),
\* with e evaluated once
Only(S) == CHOOSE x \in S : TRUE

\* one pass of the inner loop of Write (lines 67-80): the next contiguous
\* copy from p[written]. st = [data, pos, written, total, copies, trail];
\* trail lists the values line 77 assigns to writePos
WriteChunk(st, p, toWrite) ==
    LET contiguous == Contiguous(st.pos, toWrite)
        d2 == [i \in 0..(BufSize - 1) |->
                 IF i >= st.pos /\ i < st.pos + contiguous
                 THEN p[st.written + (i - st.pos) + 1]
                 ELSE st.data[i]]
    IN  [st EXCEPT !.data = d2,
                   !.pos = Advance(st.pos, contiguous),
                   !.written = st.written + contiguous,
                   !.total = st.total + contiguous,
                   !.copies = st.copies + 1,
                   !.trail = Append(st.trail, Advance(st.pos, contiguous))]

\* the inner loop of Write: copy toWrite bytes of p in contiguous chunks
RECURSIVE WriteChunks(_, _, _)
WriteChunks(st, p, toWrite) ==
    IF toWrite > 0
    THEN Only({WriteChunks(nx, p, toWrite - (nx.written - st.written)) :
                 nx \in {WriteChunk(st, p, toWrite)}})
    ELSE st

\* the inner loop of Read: copy toRead bytes out, in contiguous chunks.
\* st = [pos, read, total, copies, bytes]
RECURSIVE ReadChunks(_, _)
ReadChunks(st, toRead) ==
    IF toRead > 0
    THEN LET contiguous == Contiguous(st.pos, toRead)
             chunk == [k \in 1..contiguous |-> data[st.pos + k - 1]]
         IN ReadChunks([st EXCEPT !.pos = Advance(st.pos, contiguous),
                                  !.read = st.read + contiguous,
                                  !.total = st.total + contiguous,
                                  !.copies = st.copies + 1,
                                  !.bytes = st.bytes \o chunk],
                       toRead - contiguous)
    ELSE st

\* cond.Broadcast seen by a task: a task parked in cond.Wait is woken
WakeLost(pc) == pc
Wake(pc) == IF pc = "parked" THEN "woken" ELSE pc

\* how much one pass of Write's outer loop copies
WriteAmountAll(len, written, free) == len - written
WriteAmount(len, written, free) == Min(len - written, free)

\* how much Read copies out
ReadAmountAll(len, available) == available
ReadAmount(len, available) == Min(len, available)

\* line 54: does Write, back from the wait loop, return ErrBufferClosed
WriteSeesClosedOnlyWhenFull(free, isClosed) == isClosed /\ free = 0
WriteSeesClosed(free, isClosed) == isClosed

\* The outer loop of Write (lines 48-85) run under the lock from the state
\* st = [data, pos, written, total, copies, trail, bcast, outcome] until it
\* returns ("ok", "closed") or reaches cond.Wait ("park").
RECURSIVE WriteLoop(_, _)
WriteLoop(st, p) ==
    IF st.written >= Len(p)
    THEN [st EXCEPT !.outcome = "ok"]
    ELSE LET free == Free(st.pos, readPos)
         IN  IF free = 0 /\ ~closed
             THEN [st EXCEPT !.outcome = "park"]              \* line 50
             ELSE IF WriteSeesClosed(free, closed)
             THEN [st EXCEPT !.outcome = "closed"]            \* line 54
             ELSE WriteLoop(
                    [WriteChunks(st, p, WriteAmount(Len(p), st.written, free))
                       EXCEPT !.bcast = TRUE],                \* line 84
                    p)

\* the run of Write's outer loop from the current state
WriteRun ==
    WriteLoop([data |-> data, pos |-> writePos, written |-> pwritten,
               total |-> bytesWritten, copies |-> 0, trail |-> <<>>,
               bcast |-> FALSE, outcome |-> "run"], pbuf)

\* One locked section of CircularBuffer.Write(pbuf) that starts with
\* pwritten bytes already stored (0 at the call, more after a cond.Wait);
\* retpc is where the caller continues when Write returns.
WriteSection(retpc) ==
    IF ppc = "writing" /\ closed
    THEN \* line 43: closed at the call
         /\ ppc' = retpc
         /\ pret' = [n |-> 0, err |-> "ErrBufferClosed"]
         /\ UNCHANGED <<ringVars, pwritten, cpc, accepted>>
    ELSE \E st \in {WriteRun} :
             /\ data' = st.data
             /\ writePos' = st.pos
             /\ bytesWritten' = st.total
             /\ pwritten' = st.written
             /\ accepted' = accepted \o SubSeq(pbuf, pwritten + 1, st.written)
             /\ cpc' = IF st.bcast THEN Wake(cpc) ELSE cpc
             /\ IF st.outcome = "park"
                THEN ppc' = "parked" /\ pret' = pret
                ELSE /\ ppc' = retpc
                     /\ pret' = [n |-> st.written,
                                 err |-> IF st.outcome = "closed"
                                         THEN "ErrBufferClosed" ELSE "nil"]
             /\ UNCHANGED <<readPos, bytesRead, closed>>

\* the inner loop of Read (lines 113-128) run from the current state
ReadRun ==
    ReadChunks([pos |-> readPos, read |-> 0, total |-> bytesRead,
                copies |-> 0, bytes |-> <<>>],
               ReadAmount(clen, Available(writePos, readPos)))

\* line 100: does Read return io.EOF
ReadEOFWhenClosed(available, isClosed) == isClosed
ReadEOF(available, isClosed) == available = 0 /\ isClosed

\* One locked section of CircularBuffer.Read(p), len(p) = clen. The field
\* closed of the returned record is history: whether the buffer was closed
\* when Read returned; so is waited: whether the call went through cond.Wait.
ReadSection(retpc) ==
    LET available == Available(writePos, readPos)
    IN  IF available = 0 /\ ~closed
        THEN \* line 96: cond.Wait
             /\ cpc' = "parked"
             /\ UNCHANGED <<ringVars, cret, ppc, out>>
        ELSE IF ReadEOF(available, closed)
        THEN \* line 100
             /\ cpc' = retpc
             /\ cret' = [n |-> 0, err |-> "EOF", closed |-> closed,
                       waited |-> cpc = "woken"]
             /\ UNCHANGED <<ringVars, ppc, out>>
        ELSE LET st == ReadRun
             IN  /\ readPos' = st.pos
                 /\ bytesRead' = st.total
                 /\ out' = out \o st.bytes
                 /\ cret' = [n |-> st.read, err |-> "nil", closed |-> closed,
                              waited |-> cpc = "woken"]
                 /\ cpc' = retpc
                 /\ ppc' = Wake(ppc)                \* line 131: Broadcast
                 /\ UNCHANGED <<data, writePos, bytesWritten, closed>>

\* what Close does to a task's position in cond.Wait
CloseWakeNone(pc) == pc
CloseWake(pc) == Wake(pc)

\* CircularBuffer.Close, but for its Broadcast, which the caller's action
\* applies to the other tasks with CloseWake
CloseBuffer ==
    /\ closed' = TRUE
    /\ UNCHANGED <<data, writePos, readPos, bytesWritten, bytesRead>>

\* ------------------------------------------------ SpecRing: the tasks
\* the writer task calls Write(p) with the next n bytes of its stream
WriteCall ==
    /\ ppc = "idle"
    /\ \E n \in 0..MaxWrite :
          /\ srcPos + n <= MaxStream
          /\ pbuf' = StreamBytes(srcPos, n)
          /\ srcPos' = srcPos + n
    /\ pwritten' = 0
    /\ ppc' = "writing"
    /\ copyLog' = [copyLog EXCEPT !.write = 0, !.pass = 0]
    /\ UNCHANGED <<ringVars, pret, cpc, clen, cret, accepted, out, closeCalls>>
    /\ UNCHANGED sessVars
    /\ UNCHANGED raceVars
    /\ UNCHANGED <<retryVars, proc>>
    /\ UNCHANGED starved
    /\ UNCHANGED tcVars
    /\ UNCHANGED lateRead
    /\ UNCHANGED hwVars
    /\ UNCHANGED <<cmdVars, reqVars, dataVars>>

\* the writer task runs a locked section of Write
WriteStep ==
    /\ ppc \in {"writing", "woken"}
    /\ WriteSection("idle")
    /\ copyLog' = IF ppc = "writing" /\ closed
                  THEN copyLog
                  ELSE Only({[copyLog EXCEPT !.write = @ + st.copies,
                                             !.pass = st.copies] :
                               st \in {WriteRun}})
    /\ UNCHANGED <<pbuf, clen, cret, srcPos, out, closeCalls>>
    /\ UNCHANGED sessVars
    /\ UNCHANGED raceVars
    /\ UNCHANGED <<retryVars, proc>>
    /\ UNCHANGED starved
    /\ UNCHANGED tcVars
    /\ UNCHANGED lateRead
    /\ UNCHANGED hwVars
    /\ UNCHANGED <<cmdVars, reqVars, dataVars>>

\* the reader task calls Read(p) with len(p) = n
ReadCall ==
    /\ cpc = "idle"
    /\ \E n \in 0..MaxRead : clen' = n
    /\ cpc' = "reading"
    /\ UNCHANGED <<ringVars, ppc, pbuf, pwritten, pret, cret, srcPos,
                   accepted, out, closeCalls, copyLog>>
    /\ UNCHANGED sessVars
    /\ UNCHANGED raceVars
    /\ UNCHANGED <<retryVars, proc>>
    /\ UNCHANGED starved
    /\ UNCHANGED tcVars
    /\ UNCHANGED lateRead
    /\ UNCHANGED hwVars
    /\ UNCHANGED <<cmdVars, reqVars, dataVars>>

\* the reader task runs a locked section of Read
ReadStep ==
    /\ cpc \in {"reading", "woken"}
    /\ ReadSection("idle")
    /\ copyLog' = IF Available(writePos, readPos) = 0
                  THEN copyLog
                  ELSE [copyLog EXCEPT !.read = ReadRun.copies]
    /\ UNCHANGED <<pbuf, pwritten, pret, clen, srcPos, accepted, closeCalls>>
    /\ UNCHANGED sessVars
    /\ UNCHANGED raceVars
    /\ UNCHANGED <<retryVars, proc>>
    /\ UNCHANGED starved
    /\ UNCHANGED tcVars
    /\ UNCHANGED lateRead
    /\ UNCHANGED hwVars
    /\ UNCHANGED <<cmdVars, reqVars, dataVars>>

\* any task calls Close
CloseCall ==
    /\ closeCalls < MaxCloses
    /\ closeCalls' = closeCalls + 1
    /\ CloseBuffer
    /\ ppc' = CloseWake(ppc)
    /\ cpc' = CloseWake(cpc)
    /\ UNCHANGED <<pbuf, pwritten, pret, clen, cret, srcPos, accepted, out,
                   copyLog>>
    /\ UNCHANGED sessVars
    /\ UNCHANGED raceVars
    /\ UNCHANGED <<retryVars, proc>>
    /\ UNCHANGED starved
    /\ UNCHANGED tcVars
    /\ UNCHANGED lateRead
    /\ UNCHANGED hwVars
    /\ UNCHANGED <<cmdVars, reqVars, dataVars>>

\* NewCircularBuffer
InitBuffer ==
    /\ data = [i \in 0..(BufSize - 1) |-> 0]
    /\ writePos = 0 /\ readPos = 0
    /\ bytesWritten = 0 /\ bytesRead = 0
    /\ closed = FALSE
    /\ pbuf = <<>> /\ pwritten = 0
    /\ pret = [n |-> 0, err |-> "none"]
    /\ clen = 0
    /\ cret = [n |-> 0, err |-> "none", closed |-> FALSE, waited |-> FALSE]
    /\ srcPos = 0
    /\ accepted = <<>> /\ out = <<>>
    /\ closeCalls = 0
    /\ copyLog = [write |-> 0, pass |-> 0, read |-> 0]
    /\ wTrail = <<0>> /\ obsAvail = 0

\* ------------------------------------------------- Detector and Selector
Vendors == {"nvidia", "intel", "amd"}

\* types.HardwareInfo{}
NoDevice ==
    [Type |-> "", DevicePath |-> "", DeviceID |-> 0, Capabilities |-> {},
     Available |-> FALSE]

\* what the probe of a vendor can find: its tool is absent, it lists no
\* device, no codec of a device is confirmed, n devices are confirmed; and
\* for AMD without render nodes, the AMF encoder of Windows is confirmed
ProbeResults(v) ==
    {[outcome |-> o, n |-> 0] : o \in {"absent", "nodevice", "nocodec"}}
    \cup {[outcome |-> "ok", n |-> k] : k \in 1..MaxDevices}
    \cup (IF v = "amd" THEN {[outcome |-> "amf", n |-> 1]} ELSE {})

\* a Selector that has not been initialized, on a machine that has not been
\* probed by DetectAllDevices
InitNoHardware ==
    /\ probes = [v \in Vendors |-> [outcome |-> "absent", n |-> 0]]
    /\ preferred = "auto"
    /\ availableGPUs = <<>> /\ initialized = FALSE
    /\ devices = <<>>
    /\ selCall = [called |-> FALSE, deviceType |-> "", deviceID |-> 0,
                  hw |-> NoDevice, err |-> "none"]

\* types.TranscodingProfile{}
NoProfile ==
    [Name |-> "", VideoCodec |-> "", AudioCodec |-> "", HardwareAccel |-> "",
     VideoBitrate |-> "", AudioBitrate |-> "", Container |-> "",
     ExtraArgs |-> <<>>]

\* no Refresher has been constructed
NoRefresher ==
    [interval |-> 0, period |-> 0, refreshes |-> 0, fetched |-> 0,
     stored |-> 0, err |-> "none", running |-> FALSE]

\* what Parse has returned before any call
NoResult == [called |-> FALSE, channels |-> <<>>, err |-> "none"]

\* no playlist has been fetched
InitNoData ==
    plData = <<>> /\ plResult = NoResult /\ refresher = NoRefresher

\* no FFmpegTranscoder has been constructed
InitNoCommand ==
    thw = NoDevice /\ tprofile = NoProfile /\ cmdArgs = <<>>

\* the zero config.Config
NoConfig ==
    [HardwareDevice |-> "", TranscodeMode |-> "", VideoCodec |-> "",
     AudioCodec |-> ""]

\* a response of which nothing has been written
NoResponse == [status |-> 0, body |-> 0]

\* no stream handler has been constructed
InitNoRequest ==
    cfg = NoConfig /\ hpc = "none" /\ resp = NoResponse /\ tsErr = "none"

\* the callers of Close: 1 is the deferred call of TranscodeStream
Closers == {1, 2}

PipeNames == {"stdin", "stdout", "stderr"}

\* the steps of Start that can fail, in order; "none": Start succeeds
StartSteps == <<"stdin", "stdout", "stderr", "spawn", "none">>
StepIndex(f) == CHOOSE i \in 1..Len(StartSteps) : StartSteps[i] = f

\* Start lines 86-101: is pipe p created before Start stops at step f
PipeCreated(p, f) ==
    /\ StepIndex(p) < StepIndex(f)
    /\ p = "stdin" => hasStdin

\* the fields stdin, stdout, stderr when Start returns after stopping at f.
\* A failed pipe creation returns with the pipes created so far still open;
\* a failed cmd.Start has closed the pipes of the command (os/exec).
PipesAfterStart(f) ==
    [p \in PipeNames |->
        IF PipeCreated(p, f)
        THEN IF f = "spawn" THEN "closed" ELSE "open"
        ELSE "nil"]

\* NewFFmpegTranscoder
InitTranscoder ==
    /\ tclosed = FALSE /\ cmdSet = FALSE /\ started = FALSE
    /\ pipes = [p \in PipeNames |-> "nil"]
    /\ reaped = FALSE
    /\ tmu = 0
    /\ kpc = [k \in Closers |-> "idle"]
    /\ kret = [k \in Closers |-> [err |-> "none", errors |-> <<>>]]
    /\ terrs = <<>>
    /\ startRet = "none"
    /\ closeLog = <<>> /\ tcalls = 0 /\ kover = {}
    /\ proc = "none"
    /\ spawns = 0

\* a FFmpegTranscoder on which Start has succeeded, reading a URL
InitTranscoderStarted ==
    /\ hasStdin = FALSE
    /\ tclosed = FALSE /\ cmdSet = TRUE /\ started = TRUE
    /\ pipes = PipesAfterStart("none")
    /\ reaped = FALSE
    /\ tmu = 0
    /\ kpc = [k \in Closers |-> "idle"]
    /\ kret = [k \in Closers |-> [err |-> "none", errors |-> <<>>]]
    /\ terrs = <<>>
    /\ startRet = "nil"
    /\ closeLog = <<>> /\ tcalls = 0 /\ kover = {}
    /\ proc = "running"
    /\ spawns = 1

\* NewBufferManager's fields and the locals of a session before it runs
InitManager ==
    /\ prefetchActive = FALSE /\ underruns = 0
    /\ pn = 0 /\ lwritten = 0
    /\ exitReason = "none" /\ throttled = FALSE
    /\ cancelled = FALSE
    /\ elapsed = 0 /\ wfdRet = "none" /\ wfdDone = FALSE
    /\ sink = <<>> /\ copyResult = "none"
    /\ retryCount = 0 /\ attempt = 0 /\ lastErr = 0
    /\ rrRet = [n |-> 0, err |-> "none", budget |-> 0, last |-> 0]
    /\ errCount = 0 /\ rrFails = 0 /\ rrReads = 0 /\ rrBase = 0
    /\ starved = FALSE
    /\ lateRead = FALSE

InitRing ==
    /\ InitBuffer
    /\ InitManager
    /\ ppc = "idle" /\ cpc = "idle"
    /\ minThreshold = 0 /\ ratioNum = 0 /\ srcLen = 0
    /\ maxRetries = 0
    /\ hasStdin = FALSE
    /\ InitTranscoder
    /\ InitNoHardware
    /\ InitNoCommand /\ InitNoRequest
    /\ InitNoData

NextRing == WriteCall \/ WriteStep \/ ReadCall \/ ReadStep \/ CloseCall

SpecRing == InitRing /\ [][NextRing]_vars

\* ------------------------------------------- SpecSession: BufferManager
\* the consumer finds the buffer drained while prefetchLoop is active
Drained ==
    Available(writePos, readPos) = 0 /\ bytesRead > 0 /\ prefetchActive

\* Positions of the prefetch goroutine (ppc):
\*   spawned  launched by Start, not yet run        check    top of the loop
\*   sleep    in time.Sleep (throttle)              read     in RetryRead,
\*   backoff  in time.Sleep of RetryRead                      at reader.Read
\*   stalled  in a source read that does not return wloop    `for written < n`
\*   writing / parked / woken   in CircularBuffer.Write
\*   wret     Write has returned                    exit, closing  the defer
\*   done     returned
\* Positions of the consumer, io.Copy in TranscodeStream (cpc):
\*   copy     about to call BufferManager.Read
\*   wfd      WaitForData, at the select            wfdB, wfdC  its second
\*            and third check of one ticker period
\*   reading / parked / woken   in CircularBuffer.Read
\*   rret     CircularBuffer.Read has returned
\*   copied   io.Copy has returned                  done     deferred Close ran
\*
\* WaitForData's timer (30 s) is TimeoutTicks periods of its ticker (10 ms):
\* the timeout case is taken when that many periods have elapsed.
\* PrefetchRatio is the rational ratioNum / RatioDen; the comparison of
\* line 74 is made on integers.

\* CircularBuffer.Stats().BufferLevel > config.PrefetchRatio
ThrottleAtOrAbove(available, num) == available * RatioDen >= num * BufSize
Throttle(available, num) == available * RatioDen > num * BufSize

\* WaitForData line 139
PollOkOffByOne(available, minBytes) == available >= minBytes - 1
PollOk(available, minBytes) == available >= minBytes

\* the case <-timeout of WaitForData is ready
TimeoutNever(ticks) == FALSE
TimeoutDue(ticks) == ticks >= TimeoutTicks

ringLocals == <<pbuf, pwritten, pret, clen, cret, accepted, out, closeCalls,
                copyLog>>
consumerVars == <<cpc, clen, cret, out, elapsed, wfdRet, wfdDone, sink,
                  copyResult, underruns>>
configVars == <<minThreshold, ratioNum, srcLen>>

\* prefetchLoop lines 54-56
P_Start ==
    /\ ppc = "spawned"
    /\ prefetchActive' = TRUE
    /\ ppc' = "check"
    /\ UNCHANGED <<ringVars, ringLocals, cpc, srcPos, underruns, configVars,
                   pn, lwritten, exitReason, throttled, cancelled,
                   elapsed, wfdRet, wfdDone, sink, copyResult>>
    /\ UNCHANGED raceVars
    /\ UNCHANGED <<retryVars, proc>>
    /\ UNCHANGED starved
    /\ UNCHANGED tcVars
    /\ UNCHANGED lateRead
    /\ UNCHANGED hwVars
    /\ UNCHANGED <<cmdVars, reqVars, dataVars>>

\* RetryRead line 33: the loop test, on the number of the next attempt
AttemptAllowedStrict(n, max) == n < max
AttemptAllowed(n, max) == n <= max

\* RetryRead line 44: does it sleep after failed attempt n
RetryAgainAlways(n, max) == TRUE
RetryAgain(n, max) == n < max

\* RetryRead line 41: retryCount after a failed attempt
CountRetryNot(count) == count
CountRetry(count) == count + 1

\* RetryRead lines 33 and 50: attempt n is made, or the loop ends and
\* RetryRead returns the wrapped error, on which prefetchLoop returns
\* (line 88)
RetryNext(n) ==
    /\ attempt' = n
    /\ IF AttemptAllowed(n, maxRetries)
       THEN /\ ppc' = "read"
            /\ UNCHANGED <<rrRet, exitReason>>
       ELSE /\ ppc' = "exit"
            /\ exitReason' = "readerr"
            /\ rrRet' = [n |-> 0, err |-> "exhausted",
                         budget |-> maxRetries, last |-> lastErr']

\* prefetchLoop lines 68-81: the select, the throttle check, and the call of
\* RetryRead
CtxDoneNever(c) == FALSE
CtxDone(c) == c

P_Check ==
    /\ ppc = "check"
    /\ IF CtxDone(cancelled)
       THEN /\ ppc' = "exit"
            /\ exitReason' = "cancel"
            /\ UNCHANGED <<throttled, attempt, rrFails, rrReads, rrBase,
                           lastErr, rrRet>>
       ELSE IF Throttle(Available(writePos, readPos), ratioNum)
       THEN /\ ppc' = "sleep"
            /\ throttled' = TRUE
            /\ UNCHANGED <<exitReason, attempt, rrFails, rrReads, rrBase,
                           lastErr, rrRet>>
       ELSE /\ lastErr' = 0
            /\ rrFails' = 0 /\ rrReads' = 0 /\ rrBase' = retryCount
            /\ RetryNext(0)
            /\ UNCHANGED throttled
    /\ UNCHANGED <<ringVars, ringLocals, cpc, srcPos, prefetchActive,
                   underruns, configVars, pn, lwritten, cancelled,
                   elapsed, wfdRet, wfdDone, sink, copyResult>>
    /\ UNCHANGED raceVars
    /\ UNCHANGED <<maxRetries, retryCount, errCount, proc>>
    /\ UNCHANGED starved
    /\ UNCHANGED tcVars
    /\ UNCHANGED lateRead
    /\ UNCHANGED hwVars
    /\ UNCHANGED <<cmdVars, reqVars, dataVars>>

\* prefetchLoop lines 76-77: the sleep ends
P_Sleep ==
    /\ ppc = "sleep"
    /\ ppc' = "check"
    /\ UNCHANGED <<ringVars, ringLocals, cpc, srcPos, sessVars>>
    /\ UNCHANGED raceVars
    /\ UNCHANGED <<retryVars, proc>>
    /\ UNCHANGED starved
    /\ UNCHANGED tcVars
    /\ UNCHANGED lateRead
    /\ UNCHANGED hwVars
    /\ UNCHANGED <<cmdVars, reqVars, dataVars>>

\* prefetchLoop lines 81-89 with RetryRead lines 34-37: reader.Read returns
\* n bytes, or io.EOF once the subprocess is gone and its output is read;
\* RetryRead returns the same
P_Read ==
    /\ ppc = "read"
    /\ pipes["stdout"] = "open"
    /\ \/ \E n \in 1..ScratchLen :
             /\ srcPos + n <= srcLen
             /\ pn' = n
             /\ srcPos' = srcPos + n
             /\ lwritten' = 0
             /\ ppc' = "wloop"
             /\ rrRet' = [n |-> n, err |-> "nil", budget |-> 0, last |-> 0]
             /\ UNCHANGED exitReason
       \/ /\ srcPos = srcLen
          /\ proc = "exited"
          /\ ppc' = "exit"
          /\ exitReason' = "eof"
          /\ rrRet' = [n |-> 0, err |-> "EOF", budget |-> 0, last |-> 0]
          /\ UNCHANGED <<pn, srcPos, lwritten>>
    /\ rrReads' = rrReads + 1
    /\ UNCHANGED <<ringVars, ringLocals, cpc, prefetchActive, underruns,
                   configVars, throttled, cancelled,
                   elapsed, wfdRet, wfdDone, sink, copyResult>>
    /\ UNCHANGED raceVars
    /\ UNCHANGED <<maxRetries, retryCount, attempt, lastErr, errCount,
                   rrFails, rrBase, proc>>
    /\ UNCHANGED starved
    /\ UNCHANGED tcVars
    /\ UNCHANGED lateRead
    /\ UNCHANGED hwVars
    /\ UNCHANGED <<cmdVars, reqVars, dataVars>>

\* RetryRead lines 34-47: reader.Read returns an error other than io.EOF
\* (always so once cmd.Wait has closed the pipe it reads);
\* RetryRead counts it and sleeps before the next attempt, if there is one
P_ReadErr ==
    /\ ppc = "read"
    /\ errCount < MaxErrors \/ pipes["stdout"] = "closed"
    /\ errCount' = errCount + 1
    /\ rrFails' = rrFails + 1
    /\ rrReads' = rrReads + 1
    /\ lastErr' = errCount + 1
    /\ retryCount' = CountRetry(retryCount)
    /\ IF RetryAgain(attempt, maxRetries)
       THEN /\ ppc' = "backoff"
            /\ UNCHANGED <<attempt, rrRet, exitReason>>
       ELSE RetryNext(attempt + 1)
    /\ UNCHANGED <<ringVars, ringLocals, cpc, srcPos, prefetchActive,
                   underruns, configVars, pn, lwritten, throttled, cancelled,
                   elapsed, wfdRet, wfdDone, sink, copyResult>>
    /\ UNCHANGED raceVars
    /\ UNCHANGED <<maxRetries, rrBase, proc>>
    /\ UNCHANGED starved
    /\ UNCHANGED tcVars
    /\ UNCHANGED lateRead
    /\ UNCHANGED hwVars
    /\ UNCHANGED <<cmdVars, reqVars, dataVars>>

\* prefetchLoop lines 81-89 with RetryRead lines 34-37, for a reader that
\* returns its last n > 0 bytes together with io.EOF (io.Reader allows it):
\* RetryRead returns (n, io.EOF) and prefetchLoop returns at line 89, before
\* the write loop of lines 92-100
P_ReadTail ==
    /\ ppc = "read"
    /\ pipes["stdout"] = "open"
    /\ proc = "exited"
    /\ \E n \in 1..ScratchLen :
          /\ srcPos + n = srcLen
          /\ pn' = n
          /\ srcPos' = srcPos + n
          /\ rrRet' = [n |-> n, err |-> "EOF", budget |-> 0, last |-> 0]
    /\ ppc' = "exit"
    /\ exitReason' = "eof"
    /\ rrReads' = rrReads + 1
    /\ UNCHANGED <<ringVars, ringLocals, cpc, prefetchActive, underruns,
                   configVars, lwritten, throttled, cancelled,
                   elapsed, wfdRet, wfdDone, sink, copyResult>>
    /\ UNCHANGED raceVars
    /\ UNCHANGED <<maxRetries, retryCount, attempt, lastErr, errCount,
                   rrFails, rrBase, proc>>
    /\ UNCHANGED starved
    /\ UNCHANGED tcVars
    /\ UNCHANGED lateRead
    /\ UNCHANGED hwVars
    /\ UNCHANGED <<cmdVars, reqVars, dataVars>>

\* RetryRead lines 34-47, for a reader that returns n > 0 bytes together
\* with an error other than io.EOF: RetryRead keeps the error only, n is
\* assigned again by the next attempt or replaced by 0 at line 50
P_ReadErrData ==
    /\ ppc = "read"
    /\ pipes["stdout"] = "open"
    /\ errCount < MaxErrors
    /\ \E n \in 1..ScratchLen :
          /\ srcPos + n <= srcLen
          /\ srcPos' = srcPos + n
    /\ errCount' = errCount + 1
    /\ rrFails' = rrFails + 1
    /\ rrReads' = rrReads + 1
    /\ lastErr' = errCount + 1
    /\ retryCount' = CountRetry(retryCount)
    /\ IF RetryAgain(attempt, maxRetries)
       THEN /\ ppc' = "backoff"
            /\ UNCHANGED <<attempt, rrRet, exitReason>>
       ELSE RetryNext(attempt + 1)
    /\ UNCHANGED <<ringVars, ringLocals, cpc, prefetchActive,
                   underruns, configVars, pn, lwritten, throttled, cancelled,
                   elapsed, wfdRet, wfdDone, sink, copyResult>>
    /\ UNCHANGED raceVars
    /\ UNCHANGED <<maxRetries, rrBase, proc>>
    /\ UNCHANGED starved
    /\ UNCHANGED tcVars
    /\ UNCHANGED lateRead
    /\ UNCHANGED hwVars
    /\ UNCHANGED <<cmdVars, reqVars, dataVars>>

\* RetryRead lines 45-46 and 33: the sleep ends, attempt++
P_Backoff ==
    /\ ppc = "backoff"
    /\ RetryNext(attempt + 1)
    /\ UNCHANGED <<ringVars, ringLocals, cpc, srcPos, prefetchActive,
                   underruns, configVars, pn, lwritten, throttled, cancelled,
                   elapsed, wfdRet, wfdDone, sink, copyResult>>
    /\ UNCHANGED raceVars
    /\ UNCHANGED <<maxRetries, retryCount, lastErr, errCount,
                   rrFails, rrReads, rrBase, proc>>
    /\ UNCHANGED starved
    /\ UNCHANGED tcVars
    /\ lateRead' = (lateRead \/ (cancelled /\ ppc' = "read"))
    /\ UNCHANGED hwVars
    /\ UNCHANGED <<cmdVars, reqVars, dataVars>>

\* the source's Read does not return: the subprocess is alive and writes
\* nothing
P_Stall ==
    /\ ppc = "read"
    /\ proc = "running"
    /\ ppc' = "stalled"
    /\ UNCHANGED <<ringVars, ringLocals, cpc, srcPos, sessVars>>
    /\ UNCHANGED raceVars
    /\ UNCHANGED <<retryVars, proc>>
    /\ UNCHANGED starved
    /\ UNCHANGED tcVars
    /\ UNCHANGED lateRead
    /\ UNCHANGED hwVars
    /\ UNCHANGED <<cmdVars, reqVars, dataVars>>

\* the subprocess is gone: a Read blocked on its output returns
P_Resume ==
    /\ ppc = "stalled"
    /\ proc = "exited"
    /\ ppc' = "read"
    /\ UNCHANGED <<ringVars, ringLocals, cpc, srcPos, sessVars>>
    /\ UNCHANGED raceVars
    /\ UNCHANGED <<retryVars, proc>>
    /\ UNCHANGED starved
    /\ UNCHANGED tcVars
    /\ UNCHANGED lateRead
    /\ UNCHANGED hwVars
    /\ UNCHANGED <<cmdVars, reqVars, dataVars>>

\* the subprocess exits by itself; what it wrote stays readable
ProcExit ==
    /\ proc = "running"
    /\ proc' = "exited"
    /\ UNCHANGED <<ringVars, ringLocals, ppc, cpc, srcPos, sessVars>>
    /\ UNCHANGED raceVars
    /\ UNCHANGED retryVars
    /\ UNCHANGED starved
    /\ UNCHANGED tcVars
    /\ UNCHANGED lateRead
    /\ UNCHANGED hwVars
    /\ UNCHANGED <<cmdVars, reqVars, dataVars>>

\* exec.CommandContext: the context is done, os/exec kills the subprocess
ProcKill ==
    /\ proc = "running"
    /\ cancelled
    /\ proc' = "exited"
    /\ UNCHANGED <<ringVars, ringLocals, ppc, cpc, srcPos, sessVars>>
    /\ UNCHANGED raceVars
    /\ UNCHANGED retryVars
    /\ UNCHANGED starved
    /\ UNCHANGED tcVars
    /\ UNCHANGED lateRead
    /\ UNCHANGED hwVars
    /\ UNCHANGED <<cmdVars, reqVars, dataVars>>

\* prefetchLoop lines 93-94: the loop test and the call of Write
P_WriteCall ==
    /\ ppc = "wloop"
    /\ IF lwritten < pn
       THEN /\ pbuf' = StreamBytes(srcPos - pn + lwritten, pn - lwritten)
            /\ pwritten' = 0
            /\ ppc' = "writing"
       ELSE /\ ppc' = "check"
            /\ UNCHANGED <<pbuf, pwritten>>
    /\ UNCHANGED <<ringVars, pret, clen, cret, accepted, out, closeCalls,
                   cpc, srcPos, sessVars>>
    /\ UNCHANGED raceVars
    /\ UNCHANGED <<retryVars, proc>>
    /\ UNCHANGED starved
    /\ UNCHANGED tcVars
    /\ UNCHANGED lateRead
    /\ UNCHANGED hwVars
    /\ UNCHANGED <<cmdVars, reqVars, dataVars>>
    /\ UNCHANGED copyLog

\* a locked section of CircularBuffer.Write, called by prefetchLoop
P_WriteStep ==
    /\ ppc \in {"writing", "woken"}
    /\ WriteSection("wret")
    /\ UNCHANGED <<pbuf, clen, cret, srcPos, out, closeCalls, sessVars>>
    /\ wTrail' = IF ppc = "writing" /\ closed
                 THEN wTrail ELSE wTrail \o WriteRun.trail
    /\ UNCHANGED obsAvail
    /\ UNCHANGED <<retryVars, proc>>
    /\ UNCHANGED starved
    /\ UNCHANGED tcVars
    /\ UNCHANGED lateRead
    /\ UNCHANGED hwVars
    /\ UNCHANGED <<cmdVars, reqVars, dataVars>>
    /\ UNCHANGED copyLog

\* prefetchLoop lines 95-99: Write has returned
P_WriteRet ==
    /\ ppc = "wret"
    /\ IF pret.err # "nil"
       THEN /\ ppc' = "exit"
            /\ exitReason' = "writeerr"
            /\ UNCHANGED lwritten
       ELSE /\ lwritten' = lwritten + pret.n
            /\ ppc' = "wloop"
            /\ UNCHANGED exitReason
    /\ UNCHANGED <<ringVars, ringLocals, cpc, srcPos, prefetchActive,
                   underruns, configVars, pn, throttled, cancelled,
                   elapsed, wfdRet, wfdDone, sink, copyResult>>
    /\ UNCHANGED raceVars
    /\ UNCHANGED <<retryVars, proc>>
    /\ UNCHANGED starved
    /\ UNCHANGED tcVars
    /\ UNCHANGED lateRead
    /\ UNCHANGED hwVars
    /\ UNCHANGED <<cmdVars, reqVars, dataVars>>

\* line 60: the value the deferred function gives prefetchActive
ActiveAfterReturnKept == prefetchActive
ActiveAfterReturn == FALSE

\* the deferred function, lines 59-61
P_Exit ==
    /\ ppc = "exit"
    /\ prefetchActive' = ActiveAfterReturn
    /\ ppc' = "closing"
    /\ UNCHANGED <<ringVars, ringLocals, cpc, srcPos, underruns, configVars,
                   pn, lwritten, exitReason, throttled, cancelled,
                   elapsed, wfdRet, wfdDone, sink, copyResult>>
    /\ UNCHANGED raceVars
    /\ UNCHANGED <<retryVars, proc>>
    /\ UNCHANGED starved
    /\ UNCHANGED tcVars
    /\ UNCHANGED lateRead
    /\ UNCHANGED hwVars
    /\ UNCHANGED <<cmdVars, reqVars, dataVars>>

\* the deferred function, line 62
P_Close ==
    /\ ppc = "closing"
    /\ CloseBuffer
    /\ ppc' = "done"
    /\ cpc' = CloseWake(cpc)
    /\ UNCHANGED <<ringLocals, srcPos, sessVars>>
    /\ UNCHANGED raceVars
    /\ UNCHANGED <<retryVars, proc>>
    /\ UNCHANGED starved
    /\ UNCHANGED tcVars
    /\ UNCHANGED lateRead
    /\ UNCHANGED hwVars
    /\ UNCHANGED <<cmdVars, reqVars, dataVars>>

\* the request's context is cancelled (the client went away, a deadline)
Cancel ==
    /\ ~cancelled
    /\ cancelled' = TRUE
    /\ UNCHANGED <<ringVars, ringLocals, ppc, cpc, srcPos, prefetchActive,
                   underruns, configVars, pn, lwritten, exitReason,
                   throttled, elapsed, wfdRet, wfdDone, sink, copyResult>>
    /\ UNCHANGED raceVars
    /\ UNCHANGED <<retryVars, proc>>
    /\ UNCHANGED starved
    /\ UNCHANGED tcVars
    /\ UNCHANGED lateRead
    /\ UNCHANGED hwVars
    /\ UNCHANGED <<cmdVars, reqVars, dataVars>>

\* io.Copy calls BufferManager.Read, which calls WaitForData (lines 108,
\* 130-131)
C_ReadCall ==
    /\ cpc = "copy"
    /\ clen' = CopyBuf
    /\ elapsed' = 0
    /\ wfdDone' = (ppc = "done")
    /\ cpc' = "wfd"
    /\ UNCHANGED <<ringVars, pbuf, pwritten, pret, cret, accepted, out,
                   closeCalls, ppc, srcPos, prefetchActive, underruns,
                   configVars, pn, lwritten, exitReason, throttled,
                   cancelled, wfdRet, sink, copyResult>>
    /\ UNCHANGED raceVars
    /\ UNCHANGED <<retryVars, proc>>
    /\ starved' = FALSE
    /\ UNCHANGED tcVars
    /\ UNCHANGED lateRead
    /\ UNCHANGED hwVars
    /\ UNCHANGED <<cmdVars, reqVars, dataVars>>
    /\ UNCHANGED copyLog

\* WaitForData: the ticker fires (a period that ends before the timer
\* does), line 139
C_Poll ==
    /\ cpc = "wfd"
    /\ elapsed < TimeoutTicks
    /\ elapsed' = elapsed + 1
    /\ \E i \in 1..Len(wTrail) : \E j \in i..Len(wTrail) :
          obsAvail' = AvailableUnlocked(wTrail[i], wTrail[j], readPos)
    /\ IF PollOk(obsAvail', minThreshold)
       THEN cpc' = "reading" /\ wfdRet' = "nil"
       ELSE cpc' = "wfdB" /\ UNCHANGED wfdRet
    /\ UNCHANGED wTrail
    /\ UNCHANGED <<ringVars, ringLocals, ppc, srcPos, prefetchActive,
                   underruns, configVars, pn, lwritten, exitReason,
                   throttled, cancelled, wfdDone, sink, copyResult>>
    /\ UNCHANGED <<retryVars, proc>>
    /\ starved' = (starved \/ Drained)
    /\ UNCHANGED tcVars
    /\ UNCHANGED lateRead
    /\ UNCHANGED hwVars
    /\ UNCHANGED <<cmdVars, reqVars, dataVars>>

\* WaitForData line 142: isPrefetchActive. prefetchMu orders what the
\* prefetch goroutine did before its deferred function released it
C_PollActive ==
    /\ cpc = "wfdB"
    /\ cpc' = IF prefetchActive THEN "wfd" ELSE "wfdC"
    /\ wTrail' = IF ppc \in {"closing", "done"} THEN <<writePos>> ELSE wTrail
    /\ UNCHANGED obsAvail
    /\ UNCHANGED <<ringVars, ringLocals, ppc, srcPos, sessVars>>
    /\ UNCHANGED <<retryVars, proc>>
    /\ UNCHANGED starved
    /\ UNCHANGED tcVars
    /\ UNCHANGED lateRead
    /\ UNCHANGED hwVars
    /\ UNCHANGED <<cmdVars, reqVars, dataVars>>

\* WaitForData line 142: Available() == 0, without b.mu again
C_PollEmpty ==
    /\ cpc = "wfdC"
    /\ \E i \in 1..Len(wTrail) : \E j \in i..Len(wTrail) :
          obsAvail' = AvailableUnlocked(wTrail[i], wTrail[j], readPos)
    /\ UNCHANGED wTrail
    /\ IF obsAvail' = 0
       THEN \* BufferManager.Read returns io.EOF; io.Copy returns nil
            /\ wfdRet' = "EOF"
            /\ cpc' = "copied"
            /\ copyResult' = "ok"
       ELSE /\ cpc' = "wfd"
            /\ UNCHANGED <<wfdRet, copyResult>>
    /\ UNCHANGED <<ringVars, ringLocals, ppc, srcPos, prefetchActive,
                   underruns, configVars, pn, lwritten, exitReason,
                   throttled, cancelled, elapsed, wfdDone, sink>>
    /\ UNCHANGED <<retryVars, proc>>
    /\ UNCHANGED starved
    /\ UNCHANGED tcVars
    /\ UNCHANGED lateRead
    /\ UNCHANGED hwVars
    /\ UNCHANGED <<cmdVars, reqVars, dataVars>>

\* WaitForData line 136: the timer fires; BufferManager.Read and io.Copy
\* return the error
C_Timeout ==
    /\ cpc = "wfd"
    /\ TimeoutDue(elapsed)
    /\ wfdRet' = "timeout"
    /\ cpc' = "copied"
    /\ copyResult' = "timeout"
    /\ UNCHANGED <<ringVars, ringLocals, ppc, srcPos, prefetchActive,
                   underruns, configVars, pn, lwritten, exitReason,
                   throttled, cancelled, elapsed, wfdDone, sink>>
    /\ UNCHANGED raceVars
    /\ UNCHANGED <<retryVars, proc>>
    /\ UNCHANGED starved
    /\ UNCHANGED tcVars
    /\ UNCHANGED lateRead
    /\ UNCHANGED hwVars
    /\ UNCHANGED <<cmdVars, reqVars, dataVars>>

\* a locked section of CircularBuffer.Read, called by BufferManager.Read
C_ReadStep ==
    /\ cpc \in {"reading", "woken"}
    /\ ReadSection("rret")
    /\ UNCHANGED <<pbuf, pwritten, pret, clen, srcPos, accepted, closeCalls,
                   sessVars>>
    /\ wTrail' = <<writePos>>                  \* b.mu orders the writes before
    /\ UNCHANGED obsAvail
    /\ UNCHANGED <<retryVars, proc>>
    /\ starved' = (starved \/ (cpc' = "parked" /\ Drained))
    /\ UNCHANGED tcVars
    /\ UNCHANGED lateRead
    /\ UNCHANGED hwVars
    /\ UNCHANGED <<cmdVars, reqVars, dataVars>>
    /\ UNCHANGED copyLog

\* BufferManager.Read lines 113-125, then io.Copy writes what was read
C_ReadRet ==
    /\ cpc = "rret"
    /\ IF cret.err # "nil"
       THEN /\ cpc' = "copied"
            /\ copyResult' = "ok"
            /\ UNCHANGED <<underruns, sink>>
       ELSE /\ underruns' = IF cret.n = 0 /\ prefetchActive
                            THEN underruns + 1 ELSE underruns
            /\ sink' = sink \o SubSeq(out, Len(out) - cret.n + 1, Len(out))
            /\ cpc' = "copy"
            /\ UNCHANGED copyResult
    /\ UNCHANGED <<ringVars, ringLocals, ppc, srcPos, prefetchActive,
                   configVars, pn, lwritten, exitReason, throttled,
                   cancelled, elapsed, wfdRet, wfdDone>>
    /\ UNCHANGED raceVars
    /\ UNCHANGED <<retryVars, proc>>
    /\ UNCHANGED starved
    /\ UNCHANGED tcVars
    /\ UNCHANGED lateRead
    /\ UNCHANGED hwVars
    /\ UNCHANGED <<cmdVars, reqVars, dataVars>>

\* TranscodeStream returns: its deferred bufferManager.Close()
C_Close ==
    /\ cpc = "copied"
    /\ CloseBuffer
    /\ cpc' = "done"
    /\ ppc' = CloseWake(ppc)
    /\ UNCHANGED <<ringLocals, srcPos, sessVars>>
    /\ UNCHANGED raceVars
    /\ UNCHANGED <<retryVars, proc>>
    /\ UNCHANGED starved
    /\ UNCHANGED tcVars
    /\ UNCHANGED lateRead
    /\ UNCHANGED hwVars
    /\ UNCHANGED <<cmdVars, reqVars, dataVars>>

\* ---------------------------------------------------- FFmpegTranscoder
\* everything but the transcoder and its subprocess
otherVars == <<ringVars, ringLocals, ppc, cpc, srcPos, sessVars, raceVars,
               retryVars, starved, lateRead, hwVars, cmdVars, reqVars,
               dataVars>>

\* FFmpegTranscoder.Start, which runs under t.mu: lines 75-111
StartBody ==
    /\ tmu = 0
    /\ IF tclosed
       THEN /\ startRet' = "ErrTranscoderClosed"
            /\ UNCHANGED <<cmdSet, pipes, started, proc, spawns>>
       ELSE \E f \in {"stdin", "stdout", "stderr", "spawn", "none"} :
               /\ f = "stdin" => hasStdin
               \* cmd.Start refuses a context that is already done
               /\ f = "none" => ~cancelled
               /\ cmdSet' = TRUE
               /\ pipes' = PipesAfterStart(f)
               /\ started' = (f = "none")
               /\ proc' = IF f = "none" THEN "running" ELSE proc
               /\ spawns' = IF f = "none" THEN spawns + 1 ELSE spawns
               /\ startRet' = IF f = "none" THEN "nil" ELSE f
    /\ UNCHANGED <<hasStdin, tclosed, reaped, tmu, kpc, kret, terrs,
                   closeLog, tcalls, kover>>
    /\ UNCHANGED otherVars

\* the first call of Start
T_Start ==
    /\ startRet = "none"
    /\ StartBody

\* Close line 302
AlreadyClosedNever(flag) == FALSE
AlreadyClosed(flag) == flag

\* Close line 321: is the error of cmd.Wait a failure of Close
WaitFailedUnless0(outcome) == outcome # "exit0"
WaitFailed(outcome) == outcome \notin {"exit0", "exit255"}

\* Close lines 339-342
NoError == [err |-> "nil", errors |-> <<>>]
CloseResultLast(errs) ==
    IF errs = <<>> THEN NoError
    ELSE [err |-> "CloseError", errors |-> <<errs[Len(errs)]>>]
CloseResult(errs) ==
    IF errs = <<>> THEN NoError
    ELSE [err |-> "CloseError", errors |-> errs]

\* what cmd.Wait can return once the subprocess has exited: nil, an
\* ExitError with code 255 or with another code or signal, another error
WaitOutcomes == {"exit0", "exit255", "exitOther", "ioError"}

\* one step of Close is logged; a failed one is appended to errs
LogStep(step, outcome, failed) ==
    /\ closeLog' = Append(closeLog, [step |-> step, outcome |-> outcome])
    /\ terrs' = IF failed THEN Append(terrs, step) ELSE terrs

\* closing pipe p from Close: the outcomes Close() of the pipe end can have.
\* A read end that cmd.Wait has closed returns "file already closed".
PipeCloseOutcomes(p) ==
    IF pipes[p] = "closed" /\ p # "stdin" THEN {"error"} ELSE {"nil", "error"}

\* caller k calls Close and goes for t.mu
T_CloseCall(k) ==
    /\ kpc[k] \in {"idle", "returned"}
    /\ tcalls < MaxTCalls
    /\ tcalls' = tcalls + 1
    /\ kpc' = [kpc EXCEPT ![k] = "lock"]
    /\ kover' = IF tmu # 0 THEN kover \cup {k} ELSE kover \ {k}
    /\ UNCHANGED <<hasStdin, tclosed, cmdSet, started, pipes, reaped, tmu,
                   kret, terrs, startRet, closeLog, proc>>
    /\ UNCHANGED otherVars
    /\ UNCHANGED spawns

\* Close lines 299-307: t.mu acquired, the closed check
T_CloseEnter(k) ==
    /\ kpc[k] = "lock"
    /\ tmu = 0
    /\ IF AlreadyClosed(tclosed)
       THEN /\ kpc' = [kpc EXCEPT ![k] = "returned"]
            /\ kret' = [kret EXCEPT ![k] = NoError]
            /\ UNCHANGED <<tclosed, tmu, terrs>>
       ELSE /\ tclosed' = TRUE
            /\ tmu' = k
            /\ terrs' = <<>>
            /\ kpc' = [kpc EXCEPT ![k] = "stdin"]
            /\ UNCHANGED kret
    /\ UNCHANGED <<hasStdin, cmdSet, started, pipes, reaped, startRet,
                   closeLog, tcalls, kover, proc>>
    /\ UNCHANGED otherVars
    /\ UNCHANGED spawns

\* Close lines 310-314
T_CloseStdin(k) ==
    /\ kpc[k] = "stdin"
    /\ IF pipes["stdin"] # "nil"
       THEN \E o \in PipeCloseOutcomes("stdin") :
               /\ LogStep("stdin", o, o # "nil")
               /\ pipes' = [pipes EXCEPT !["stdin"] = "closed"]
       ELSE UNCHANGED <<closeLog, terrs, pipes>>
    /\ kpc' = [kpc EXCEPT ![k] = "wait"]
    /\ UNCHANGED <<hasStdin, tclosed, cmdSet, started, reaped, tmu, kret,
                   startRet, tcalls, kover, proc>>
    /\ UNCHANGED otherVars
    /\ UNCHANGED spawns

\* Close lines 317-325: cmd.Wait returns when the subprocess has exited; it
\* reaps it and closes the pipe ends of the command
T_CloseWait(k) ==
    /\ kpc[k] = "wait"
    /\ IF cmdSet /\ started
       THEN /\ proc = "exited"
            /\ \E o \in WaitOutcomes : LogStep("wait", o, WaitFailed(o))
            /\ reaped' = TRUE
            /\ pipes' = [p \in PipeNames |->
                           IF pipes[p] = "nil" THEN "nil" ELSE "closed"]
       ELSE UNCHANGED <<closeLog, terrs, reaped, pipes>>
    /\ kpc' = [kpc EXCEPT ![k] = "stdout"]
    /\ UNCHANGED <<hasStdin, tclosed, cmdSet, started, tmu, kret,
                   startRet, tcalls, kover, proc>>
    /\ UNCHANGED otherVars
    /\ UNCHANGED spawns

\* Close lines 328-332
T_CloseStdout(k) ==
    /\ kpc[k] = "stdout"
    /\ IF pipes["stdout"] # "nil"
       THEN \E o \in PipeCloseOutcomes("stdout") :
               /\ LogStep("stdout", o, o # "nil")
               /\ pipes' = [pipes EXCEPT !["stdout"] = "closed"]
       ELSE UNCHANGED <<closeLog, terrs, pipes>>
    /\ kpc' = [kpc EXCEPT ![k] = "stderr"]
    /\ UNCHANGED <<hasStdin, tclosed, cmdSet, started, reaped, tmu, kret,
                   startRet, tcalls, kover, proc>>
    /\ UNCHANGED otherVars
    /\ UNCHANGED spawns

\* Close lines 333-337
T_CloseStderr(k) ==
    /\ kpc[k] = "stderr"
    /\ IF pipes["stderr"] # "nil"
       THEN \E o \in PipeCloseOutcomes("stderr") :
               /\ LogStep("stderr", o, o # "nil")
               /\ pipes' = [pipes EXCEPT !["stderr"] = "closed"]
       ELSE UNCHANGED <<closeLog, terrs, pipes>>
    /\ kpc' = [kpc EXCEPT ![k] = "ret"]
    /\ UNCHANGED <<hasStdin, tclosed, cmdSet, started, reaped, tmu, kret,
                   startRet, tcalls, kover, proc>>
    /\ UNCHANGED otherVars
    /\ UNCHANGED spawns

\* Close lines 339-342, and the deferred Unlock
T_CloseRet(k) ==
    /\ kpc[k] = "ret"
    /\ kret' = [kret EXCEPT ![k] = CloseResult(terrs)]
    /\ kpc' = [kpc EXCEPT ![k] = "returned"]
    /\ tmu' = 0
    /\ UNCHANGED <<hasStdin, tclosed, cmdSet, started, pipes, reaped, terrs,
                   startRet, closeLog, tcalls, kover, proc>>
    /\ UNCHANGED otherVars
    /\ UNCHANGED spawns

\* caller k inside Close
T_CloseSteps(k) ==
    \/ T_CloseEnter(k) \/ T_CloseStdin(k) \/ T_CloseWait(k)
    \/ T_CloseStdout(k) \/ T_CloseStderr(k) \/ T_CloseRet(k)

\* SpecTranscoder: one FFmpegTranscoder, a caller of Start, two callers of
\* Close, the subprocess and the context
InitTranscoderSpec ==
    /\ InitBuffer
    /\ InitManager
    /\ ppc = "idle" /\ cpc = "idle"
    /\ minThreshold = 0 /\ ratioNum = 0 /\ srcLen = 0 /\ maxRetries = 0
    /\ hasStdin \in BOOLEAN
    /\ InitTranscoder
    /\ InitNoHardware
    /\ InitNoCommand /\ InitNoRequest
    /\ InitNoData

\* A session of TranscodeStream once the transcoder has started. Every
\* buffer configuration is run without retries (a read error then ends
\* prefetchLoop); the retries are run with min_threshold 1, the middle
\* prefetch ratio and a source of at most one scratch window.
InitSession ==
    /\ InitBuffer
    /\ InitManager
    /\ ppc = "spawned" /\ cpc = "copy"
    /\ minThreshold \in 0..MaxThreshold
    /\ ratioNum \in 0..RatioDen
    /\ srcLen \in 0..MaxSource
    /\ maxRetries \in 0..MaxRetriesBound
    /\ maxRetries > 0 =>
          (minThreshold = 1 /\ ratioNum = 1 /\ srcLen <= ScratchLen)
    /\ InitTranscoderStarted
    /\ InitNoHardware
    /\ InitNoCommand /\ InitNoRequest
    /\ InitNoData

ProducerNext ==
    \/ P_Start \/ P_Check \/ P_Sleep \/ P_Read \/ P_ReadErr \/ P_Backoff
    \/ P_Stall \/ P_Resume
    \/ P_WriteCall \/ P_WriteStep \/ P_WriteRet \/ P_Exit \/ P_Close

\* the subprocess and the request's context
EnvNext == ProcExit \/ ProcKill \/ Cancel

ConsumerNext ==
    \/ C_ReadCall \/ C_Poll \/ C_PollActive \/ C_PollEmpty \/ C_Timeout
    \/ C_ReadStep \/ C_ReadRet \/ C_Close

\* TranscodeStream returns: its deferred transcoder.Close(), which runs
\* after the deferred bufferManager.Close()
H_CloseTranscoder ==
    \/ cpc = "done" /\ kpc[1] = "idle" /\ T_CloseCall(1)
    \/ T_CloseSteps(1)

NextSession == ProducerNext \/ ConsumerNext \/ H_CloseTranscoder \/ EnvNext

SpecSession == InitSession /\ [][NextSession]_vars

\* What the scheduling guarantees: a goroutine that can take a step takes
\* one (prefetchLoop, the handler in io.Copy and in its deferred calls), and
\* exec.CommandContext kills the subprocess once the context is done. That
\* the client disconnects, that the subprocess exits by itself or writes
\* output are not guaranteed.
FairSession ==
    /\ WF_vars(ProducerNext)
    /\ WF_vars(ConsumerNext)
    /\ WF_vars(H_CloseTranscoder)
    /\ WF_vars(ProcKill)

\* The sessions run under fairness: min_threshold 1 and the middle prefetch
\* ratio, with the longest source and no retries (prefetchLoop throttles, and
\* blocks in Write on a full buffer), and with the largest retry budget.
InitSessionFair ==
    /\ InitSession
    /\ minThreshold = 1 /\ ratioNum = 1
    /\ maxRetries \in {0, MaxRetriesBound}
    /\ srcLen = IF maxRetries = 0 THEN MaxSource ELSE ScratchLen

SpecSessionFair == InitSessionFair /\ [][NextSession]_vars /\ FairSession

NextTranscoder ==
    \/ T_Start
    \/ \E k \in Closers : T_CloseCall(k) \/ T_CloseSteps(k)
    \/ EnvNext

SpecTranscoder == InitTranscoderSpec /\ [][NextTranscoder]_vars

\* ===================================================== claims, SpecRing
WriteStepTaken == ppc \in {"writing", "woken"} /\ ppc' # ppc
ReadStepTaken == cpc \in {"reading", "woken"} /\ cpc' # cpc

\* C1: with one writer and one reader, under every interleaving of Write and
\* Read (wrapping data and writes blocked on a full buffer included), the
\* bytes returned by Read, concatenated, are a prefix of the bytes accepted
\* by Write, concatenated, and equal them once bytesRead = bytesWritten.
C1_FifoPrefix ==
    /\ Len(accepted) = bytesWritten
    /\ Len(out) = bytesRead
    /\ IsPrefix(out, accepted)
    /\ IsPrefix(accepted, StreamBytes(0, srcPos))
    /\ (bytesRead = bytesWritten => out = accepted)

\* a Write longer than the buffer has completed (so it blocked and wrapped)
\* and everything written has been read
C1_Witness ==
    /\ ppc = "idle" /\ pret.err = "nil" /\ pret.n > BufSize
    /\ bytesRead = bytesWritten /\ out = accepted /\ Len(out) > BufSize

\* C2: in every reachable state, after any Write, Read and Close calls,
\* available() + free() = capacity - 1 with 0 <= available() <= capacity - 1,
\* and available() = 0 exactly when the buffer holds no unread byte (one
\* byte is never usable, so a full buffer never looks empty).
C2_AvailableFree ==
    LET a == Available(writePos, readPos)
        f == Free(writePos, readPos)
    IN  /\ a + f = BufSize - 1
        /\ 0 <= a /\ a <= BufSize - 1
        /\ a = bytesWritten - bytesRead
        /\ (a = 0 <=> bytesWritten = bytesRead)

\* a full, closed buffer whose cursors have wrapped
C2_Witness ==
    /\ closed
    /\ Free(writePos, readPos) = 0
    /\ bytesWritten > BufSize
    /\ writePos < readPos

\* C3: Read returns io.EOF exactly when the buffer is closed and
\* available() is 0; a Read after Close still returns the bytes written
\* before Close, in order; a Read on an open empty buffer waits.
C3_ReadEndOfStream ==
    [][ReadStepTaken =>
          LET a == Available(writePos, readPos)
          IN  /\ (cpc' = "idle" /\ cret'.err = "EOF") <=> (closed /\ a = 0)
              /\ (cpc' = "parked") <=> (~closed /\ a = 0)
              /\ a > 0 =>
                    /\ cpc' = "idle"
                    /\ cret'.err = "nil"
                    /\ cret'.n = Min(clen, a)
                    /\ out' = out \o SubSeq(accepted, Len(out) + 1,
                                            Len(out) + Min(clen, a))
       ]_vars

\* a Read issued after Close returned bytes, and a later one will see EOF
C3_Witness ==
    /\ cpc = "idle" /\ cret.err = "nil" /\ cret.closed /\ cret.n >= 2
    /\ bytesRead = bytesWritten

\* C4: Write on a closed buffer returns ErrBufferClosed and stores nothing;
\* a Write blocked on a full buffer when Close is called returns
\* ErrBufferClosed with the count it had stored; once the buffer is closed
\* the write cursor and bytesWritten never change.
C4_WriteClosed ==
    [][/\ (WriteStepTaken /\ closed) =>
             /\ ppc' = "idle"
             /\ pret' = [n |-> pwritten, err |-> "ErrBufferClosed"]
             /\ (ppc = "writing" => pret'.n = 0)
       /\ closed =>
             /\ closed'
             /\ writePos' = writePos
             /\ bytesWritten' = bytesWritten
             /\ data' = data
             /\ accepted' = accepted
      ]_vars

\* a Write that had stored part of its data returned ErrBufferClosed
C4_Witness ==
    /\ closed /\ ppc = "idle" /\ closeCalls = 1
    /\ pret.err = "ErrBufferClosed" /\ pret.n > 0 /\ pret.n < Len(pbuf)

\* C5: Close wakes all waiters and is idempotent: after a Close no task is
\* left in cond.Wait, a woken Read or Write returns at its next step without
\* waiting again, and a Close of a closed buffer changes no state.
C5_CloseWakesAll ==
    [][/\ closed' => (ppc' # "parked" /\ cpc' # "parked")
       /\ (closed /\ WriteStepTaken) => ppc' = "idle"
       /\ (closed /\ ReadStepTaken) => cpc' = "idle"
       /\ (closed /\ closeCalls' # closeCalls) =>
             UNCHANGED <<ringVars, ppc, pbuf, pwritten, pret, cpc, clen,
                         cret, srcPos, accepted, out>>
      ]_vars

\* after two Close calls: a Read that was in cond.Wait at the first Close
\* has returned, and so has a Write
C5_Witness ==
    /\ closeCalls = 2
    /\ cpc = "idle" /\ cret.err = "EOF" /\ cret.waited
    /\ ppc = "idle" /\ pret.err = "ErrBufferClosed"


\* ================================================== claims, SpecSession
\* the consumer is inside BufferManager.Read
ConsumerInRead ==
    cpc \in {"wfd", "wfdB", "wfdC", "reading", "parked", "woken", "rret"}

\* C6: when the source reaches end-of-stream without a read error, the
\* response copy ends normally (no timeout, no other error) after every
\* byte the source produced has been written to the response, in order, for
\* every stream length and every min_threshold. Stated for the copies whose
\* last WaitForData began after prefetchLoop had returned on io.EOF.
C6_CleanEndOfStream ==
    (cpc \in {"copied", "done"} /\ exitReason = "eof" /\ wfdDone) =>
        (copyResult = "ok" /\ sink = StreamBytes(0, srcLen))

\* C7: WaitForData(min_threshold) returns io.EOF, not the timeout error, once
\* the prefetch task has finished on an exhausted source and the buffer
\* holds fewer than min_threshold bytes. Stated for the calls that began
\* after prefetchLoop had returned.
C7_EndOfStreamNotTimeout ==
    (/\ cpc \in {"copied", "done"} /\ exitReason = "eof" /\ wfdDone
     /\ Available(writePos, readPos) < minThreshold) =>
        wfdRet = "EOF"

\* C8: WaitForData returns nil at the first ticker period at which the
\* Available() it calls returns >= min_threshold, whether or not prefetchLoop
\* is running, and it never returns nil while the buffer holds fewer than
\* min_threshold bytes: the value its unlocked Available() returns never
\* exceeds the bytes buffered (and equals them when no write is concurrent),
\* so when the consumer goes on to CircularBuffer.Read the bytes are there.
C8_WaitSuccess ==
    [][/\ (cpc = "wfd" /\ elapsed' = elapsed + 1) =>
             /\ (obsAvail' >= minThreshold)
                   <=> (cpc' = "reading" /\ wfdRet' = "nil")
             /\ obsAvail' <= Available(writePos, readPos)
             /\ Len(wTrail) = 1 => obsAvail' = Available(writePos, readPos)
       /\ (cpc' = "reading") =>
             Available(writePos', readPos') >= minThreshold
      ]_vars

\* WaitForData returned nil at its second period, with the full threshold
\* buffered, while prefetchLoop was still running
C8_Witness ==
    /\ cpc = "reading" /\ wfdRet = "nil" /\ elapsed >= 2
    /\ minThreshold >= 2
    /\ prefetchActive /\ ppc \in {"check", "read", "wloop", "sleep"}

\* C9: for every buffer configuration, a consumer inside BufferManager.Read
\* whose producer has stalled without closing the buffer does not hang: it
\* can always take a step (it is never left waiting with no timeout).
C9_ReadNeverHangs ==
    (ppc = "stalled" /\ ~closed /\ ConsumerInRead) => ENABLED ConsumerNext

\* What does hold of C9: with min_threshold >= 1 the consumer never waits in
\* CircularBuffer.Read's cond.Wait, so with a stalled producer and an open
\* buffer it can always take a step: all its waiting is in WaitForData,
\* which returns the timeout error once its timer is due, and that error
\* ends the copy as an error, unlike io.EOF.
C9_ReadNeverHangsWithThreshold ==
    /\ minThreshold >= 1 =>
          /\ cpc \notin {"parked", "woken"}
          /\ (ppc = "stalled" /\ ~closed /\ ConsumerInRead) =>
                ENABLED ConsumerNext
    /\ wfdRet = "timeout" =>
          /\ cpc \in {"copied", "done"}
          /\ elapsed >= TimeoutTicks
          /\ copyResult = "timeout"
    /\ copyResult = "timeout" => wfdRet = "timeout"
    /\ (cpc = "wfd" /\ elapsed >= TimeoutTicks) => ENABLED C_Timeout

\* the producer is stalled, the buffer open, and the consumer got the
\* timeout error
C9_Witness ==
    /\ ppc = "stalled" /\ ~closed /\ prefetchActive
    /\ minThreshold >= 1
    /\ cpc = "copied" /\ wfdRet = "timeout" /\ copyResult = "timeout"

\* C10, as claimed: prefetchLoop issues no source read while the fill ratio
\* is at or above the prefetch ratio (stated for the positive ratios).
C10_NoReadAtOrAboveRatio ==
    (ppc = "read" /\ ratioNum >= 1) =>
        Available(writePos, readPos) * RatioDen < ratioNum * BufSize

\* C10, amended: prefetchLoop issues no source read while the fill ratio is
\* strictly above the prefetch ratio (at the ratio itself it reads): at its
\* check it sleeps iff the ratio is exceeded, it rechecks after the sleep,
\* and unless cancelled it goes on to read as soon as the check finds the
\* fill ratio at or below the prefetch ratio.
C10_ThrottleAboveRatio ==
    [][/\ (ppc' = "read") =>
             ~(Available(writePos', readPos') * RatioDen > ratioNum * BufSize)
       /\ (ppc = "check" /\ ppc' # "check") =>
             ppc' = IF cancelled THEN "exit"
                    ELSE IF Available(writePos, readPos) * RatioDen
                              > ratioNum * BufSize
                         THEN "sleep" ELSE "read"
       /\ (ppc = "sleep" /\ ppc' # "sleep") => ppc' = "check"
      ]_vars

\* prefetchLoop has throttled, the consumer has read, and prefetchLoop is
\* about to read the source again
C10_Witness ==
    /\ ppc = "read" /\ throttled /\ bytesRead > 0 /\ ~cancelled
    /\ ratioNum >= 1
    /\ Available(writePos, readPos) * RatioDen <= ratioNum * BufSize

\* C11: on every exit of prefetchLoop (io.EOF, cancellation, read error
\* after the retries, Write error) the buffer is closed and prefetchActive
\* is false; prefetchLoop closes the buffer only in its deferred function,
\* and from its return statement on it reads the source no more.
C11_ExitClosesBuffer ==
    [][/\ ppc' = "done" =>
             /\ closed' /\ ~prefetchActive'
             /\ exitReason' \in {"eof", "cancel", "readerr", "writeerr"}
       /\ (ppc # "closing" /\ ppc' # ppc /\ ~closed /\ closed') =>
             cpc' = "done"
       /\ ppc \in {"exit", "closing", "done"} =>
             /\ ppc' \in {"exit", "closing", "done"}
             /\ srcPos' = srcPos /\ rrReads' = rrReads
      ]_vars

\* prefetchLoop has returned after a read error that outlasted a retry, and
\* the consumer has not closed anything yet
C11_Witness ==
    /\ ppc = "done" /\ exitReason = "readerr" /\ rrFails = 2
    /\ closed /\ ~prefetchActive /\ cpc \notin {"copied", "done"}

\* a reader.Read of RetryRead returns an error other than io.EOF
ReadFails == ppc = "read" /\ errCount' # errCount

\* RetryRead returns n > 0 bytes and no error
ReadSucceeds == ppc = "read" /\ ppc' = "wloop"

\* C13: a read error followed by a successful read within the retry budget
\* does not end the session: after a failed attempt that is not the last
\* one prefetchLoop stays in RetryRead and attempts again, the success is
\* returned, prefetchLoop is still active and the buffer is not closed by
\* it; it returns because of read errors only after maxRetries + 1
\* failures in one RetryRead.
C13_RetryKeepsSession ==
    [][/\ ReadFails =>
             IF rrFails' <= maxRetries
             THEN /\ ppc' = "backoff"
                  /\ prefetchActive' /\ closed' = closed
                  /\ exitReason' = "none"
             ELSE ppc' = "exit" /\ exitReason' = "readerr"
       /\ (ppc = "backoff" /\ ppc' # "backoff") => ppc' = "read"
       /\ ReadSucceeds =>
             /\ rrRet'.err = "nil"
             /\ prefetchActive' /\ closed' = closed
             /\ exitReason' = "none"
       /\ exitReason' = "readerr" => rrFails' = maxRetries + 1
      ]_vars

\* a read succeeded after a failure, and its bytes are being written
C13_Witness ==
    /\ ppc = "writing" /\ rrFails = 1 /\ rrRet.err = "nil"
    /\ prefetchActive /\ ~closed /\ exitReason = "none"

\* C14: when the source fails N <= maxRetries times and then succeeds,
\* RetryRead returns the byte count of the successful read and no error,
\* and retryCount has grown by exactly N since the call (by 0 when the
\* first attempt succeeds or returns io.EOF).
C14_RetrySucceeds ==
    [][/\ (ReadFails /\ rrFails' <= maxRetries) =>
             (ppc' = "backoff" /\ retryCount' = retryCount + 1)
       /\ (ppc = "backoff" /\ ppc' # "backoff") =>
             (ppc' = "read" /\ rrFails' = rrFails)
       /\ ReadSucceeds =>
             /\ rrRet' = [n |-> srcPos' - srcPos, err |-> "nil",
                          budget |-> 0, last |-> 0]
             /\ pn' = rrRet'.n
             /\ rrFails' <= maxRetries /\ rrReads' = rrFails' + 1
             /\ retryCount' = rrBase' + rrFails'
       /\ (ppc = "read" /\ exitReason' = "eof") =>
             /\ rrRet'.err = "EOF" /\ rrRet'.n = 0
             /\ retryCount' = rrBase' + rrFails'
      ]_vars

\* the second RetryRead of a session returned bytes after one failure; the
\* first one had failed once too
C14_Witness ==
    /\ ppc = "wloop" /\ rrRet.err = "nil" /\ rrRet.n > 0
    /\ rrFails = 1 /\ rrBase = 1 /\ retryCount = 2

\* C15, as claimed: when RetryRead gives up it has made exactly maxRetries
\* read attempts on the source.
C15_FailsAfterMaxRetriesReads ==
    rrRet.err = "exhausted" => rrReads = maxRetries

\* C15, amended: when the source fails more than maxRetries times in a row,
\* RetryRead gives up after exactly maxRetries + 1 read attempts (the first
\* one and maxRetries retries), all failed, and returns an error that names
\* the budget maxRetries and wraps the error of the last attempt.
C15_FailsAfterBudget ==
    /\ rrRet.err = "exhausted" =>
          /\ rrReads = maxRetries + 1
          /\ rrFails = maxRetries + 1
          /\ rrRet.n = 0
          /\ rrRet.budget = maxRetries
          /\ rrRet.last = errCount /\ errCount >= rrFails
          /\ ppc \in {"exit", "closing", "done"} /\ exitReason = "readerr"
    /\ (rrFails > maxRetries /\ ppc \notin {"check", "sleep"}) =>
          rrRet.err = "exhausted"

\* RetryRead gave up after the first attempt and one retry
C15_Witness ==
    /\ rrRet.err = "exhausted" /\ maxRetries = 1
    /\ rrReads = 2 /\ rrRet.last = 2 /\ rrRet.budget = 1

C18_FailedStartClosesPipes ==
    startRet \in {"stdin", "stdout", "stderr", "spawn"} =>
        /\ \A p \in PipeNames : pipes[p] # "open"
        /\ proc # "running"

\* the steps of Close in the order of the source
CloseSteps == <<"stdin", "wait", "stdout", "stderr">>
StepOrder(step) == CHOOSE i \in 1..Len(CloseSteps) : CloseSteps[i] = step

\* is a step of Close due on this transcoder: a pipe that was opened, a
\* subprocess that was started
StepDue(step) ==
    IF step = "wait" THEN cmdSet /\ started ELSE pipes[step] # "nil"

\* the steps of closeLog, and the steps that are due, in order
StepsLogged == [i \in 1..Len(closeLog) |-> closeLog[i].step]
StepsDue == SelectSeq(CloseSteps, StepDue)

\* C19: Close executes its steps in the order stdin (if it was opened),
\* wait, stdout, stderr, each at most once over all calls, and the call that
\* runs them runs all that are due; a second or concurrent call (one that
\* finds the transcoder closed once it holds the mutex) performs no step,
\* changes nothing of the transcoder and returns nil.
C19_CloseOrderIdempotent ==
    /\ [](/\ \A i, j \in 1..Len(closeLog) :
               i < j => StepOrder(closeLog[i].step) < StepOrder(closeLog[j].step)
          /\ (tclosed /\ tmu = 0) => StepsLogged = StepsDue)
    /\ [][\A k \in Closers :
            (kpc[k] = "lock" /\ tclosed /\ kpc'[k] # "lock") =>
                /\ kpc'[k] = "returned" /\ kret'[k].err = "nil"
                /\ closeLog' = closeLog /\ pipes' = pipes
                /\ reaped' = reaped /\ tclosed']_vars

\* a Close that ran all four steps and failed, and a concurrent call of
\* caller 2 that waited for the mutex and returned nil
C19_Witness ==
    /\ StepsLogged = CloseSteps
    /\ kpc[1] = "returned" /\ kret[1].err = "CloseError"
    /\ kpc[2] = "returned" /\ kret[2].err = "nil" /\ 2 \in kover

\* did a logged step of Close fail: an error of a pipe's Close, or of
\* cmd.Wait other than an exit with code 255
StepFailed(entry) ==
    IF entry.step = "wait"
    THEN entry.outcome \notin {"exit0", "exit255"}
    ELSE entry.outcome # "nil"

\* the failed steps of closeLog, in order
FailedSteps ==
    LET failed == SelectSeq(closeLog, StepFailed)
    IN  [i \in 1..Len(failed) |-> failed[i].step]

\* C20: the Close that runs the steps returns nil iff no step (stdin close,
\* wait, stdout close, stderr close) failed, an exit with code 255 not being
\* a failure; otherwise it returns one error holding the error of every
\* failed step in order; and it has executed every step that was due, also
\* after an earlier one failed.
C20_CloseAggregatesErrors ==
    [][\A k \in Closers :
          (kpc[k] = "ret" /\ kpc'[k] = "returned") =>
              /\ kret'[k].err = "nil" <=> FailedSteps = <<>>
              /\ kret'[k].err # "nil" =>
                    kret'[k] = [err |-> "CloseError", errors |-> FailedSteps]
              /\ StepsLogged = StepsDue]_vars

\* a Close whose subprocess exited with code 255 and whose three pipe
\* closes all failed: it returned the three errors, and not that of the wait
C20_Witness ==
    /\ kpc[1] = "returned"
    /\ kret[1].errors = <<"stdin", "stdout", "stderr">>
    /\ \E i \in 1..Len(closeLog) :
          closeLog[i] = [step |-> "wait", outcome |-> "exit255"]

\* prefetchLoop calls reader.Read: from its loop check, or after a backoff
IssuesRead == ppc \in {"check", "backoff"} /\ ppc' = "read"

\* C12: after the context is cancelled the prefetch task stops at its next
\* loop check without issuing another source read, and the ring buffer is
\* eventually closed so that a consumer blocked in Read is released, from
\* every state the prefetch task can be in.
C12_NoReadAfterCancel ==
    /\ [][cancelled => ~IssuesRead]_vars
    /\ cancelled ~> (closed /\ cpc # "parked")

\* C12, amended: after the context is cancelled the prefetch task leaves
\* its next loop check by exiting; the only source reads issued after the
\* cancellation are the retries of a RetryRead that was in progress when it
\* happened (its backoff does not look at the context); and the ring buffer
\* is eventually closed, with the consumer not parked in Read.
C12_CancelStopsPrefetch ==
    /\ [][(cancelled /\ IssuesRead) => ppc = "backoff"]_vars
    /\ [][(cancelled /\ ppc = "check" /\ ppc' # "check") =>
              (ppc' = "exit" /\ exitReason' = "cancel")]_vars
    /\ cancelled ~> (closed /\ cpc # "parked")

\* the context was cancelled during a RetryRead, the retry read the source
\* once more, and prefetchLoop then stopped at its check and closed the
\* ring buffer
C12_Witness ==
    /\ cancelled /\ lateRead
    /\ exitReason = "cancel" /\ ppc = "done" /\ closed

\* the subprocess is gone and waited for, and no pipe of it is open
Released ==
    /\ proc = "exited" /\ reaped
    /\ \A p \in PipeNames : pipes[p] # "open"

\* C17: once the subprocess has been started for a stream, every way the
\* stream can end (io.Copy has returned: end of stream, timeout of
\* WaitForData, cancellation) leads to the deferred transcoder.Close being
\* called and returning, with the subprocess exited and reaped and its pipes
\* closed.
C17_CloseReleasesSubprocess ==
    (cpc = "copied") ~> (kpc[1] = "returned" /\ Released)

\* ------------------------------------------------------------- Detector
\* the render node of the k-th device of a vendor
RenderNode(v, k) ==
    IF v = "intel"
    THEN (IF k = 1 THEN "/dev/dri/renderD128" ELSE "/dev/dri/renderD129")
    ELSE (IF k = 1 THEN "/dev/dri/renderD130" ELSE "/dev/dri/renderD131")

\* the UUID nvidia-smi prints for the k-th GPU
GpuUUID(k) == IF k = 1 THEN "GPU-uuid-0" ELSE "GPU-uuid-1"

\* the k-th confirmed NVIDIA device (both NVENC test encodes succeeded)
NvidiaDevice(k) ==
    [Type |-> "nvidia", DevicePath |-> GpuUUID(k), DeviceID |-> k - 1,
     Capabilities |-> {"h264", "h265"}, Available |-> TRUE]

\* the device checkIntelNode / checkAMDNode returns for a render node;
\* DeviceID is 0 until a caller sets it
VaapiDevice(v, k) ==
    [Type |-> v, DevicePath |-> RenderNode(v, k), DeviceID |-> 0,
     Capabilities |-> {"h264", "h265"}, Available |-> TRUE]

AmfDevice ==
    [Type |-> "amd", DevicePath |-> "", DeviceID |-> 0,
     Capabilities |-> {"h264", "h265"}, Available |-> TRUE]

CheckNVIDIA(p) ==
    CASE p.outcome = "absent" ->
            [dev |-> NoDevice, err |-> "nvidia-smi not available"]
      [] p.outcome = "nodevice" ->
            [dev |-> NoDevice, err |-> "ErrNVIDIASMIFormat"]
      [] p.outcome = "nocodec" ->
            [dev |-> NoDevice, err |-> "ErrNVENCNotAvailable"]
      [] OTHER -> [dev |-> NvidiaDevice(1), err |-> "none"]

CheckIntel(p) ==
    CASE p.outcome = "absent" -> [dev |-> NoDevice, err |-> "ErrNoRenderNodes"]
      [] p.outcome \in {"nodevice", "nocodec"} ->
            [dev |-> NoDevice, err |-> "ErrNoIntelGPU"]
      [] OTHER -> [dev |-> VaapiDevice("intel", 1), err |-> "none"]

CheckAMD(p) ==
    CASE p.outcome = "absent" -> [dev |-> NoDevice, err |-> "ErrNoRenderNodes"]
      [] p.outcome \in {"nodevice", "nocodec"} ->
            [dev |-> NoDevice, err |-> "ErrNoAMDGPU"]
      [] p.outcome = "amf" -> [dev |-> AmfDevice, err |-> "none"]
      [] OTHER -> [dev |-> VaapiDevice("amd", 1), err |-> "none"]

\* the CPU entry of DetectGPUs
CpuEntryGPUs ==
    [Type |-> "cpu", DevicePath |-> "", DeviceID |-> 0,
     Capabilities |-> {"h264", "h265", "vp8", "vp9"}, Available |-> TRUE]

\* the CPU entry of DetectAllDevices
CpuEntryAll ==
    [Type |-> "cpu", DevicePath |-> "", DeviceID |-> 0,
     Capabilities |-> {"h264", "h265", "vp8", "vp9", "mpeg2"},
     Available |-> TRUE]

\* append(gpus, *dev) when the check returned no error
AppendChecked(gpus, r) == IF r.err = "none" THEN Append(gpus, r.dev) ELSE gpus

DetectGPUs(pr) ==
    AppendChecked(
        AppendChecked(
            AppendChecked(<<CpuEntryGPUs>>, CheckNVIDIA(pr["nvidia"])),
            CheckIntel(pr["intel"])),
        CheckAMD(pr["amd"]))

CheckAllNVIDIA(p) ==
    IF p.outcome = "ok" THEN [k \in 1..p.n |-> NvidiaDevice(k)] ELSE <<>>

CheckAllIntel(p) ==
    IF p.outcome = "ok"
    THEN [k \in 1..p.n |-> [VaapiDevice("intel", k) EXCEPT !.DeviceID = k - 1]]
    ELSE <<>>

CheckAllAMD(p) ==
    IF p.outcome = "ok"
    THEN [k \in 1..p.n |-> [VaapiDevice("amd", k) EXCEPT !.DeviceID = k - 1]]
    ELSE IF p.outcome = "amf" THEN <<AmfDevice>> ELSE <<>>

\* the devices DetectAllDevices returns; its error is always nil
DetectAllDevices(pr) ==
    <<CpuEntryAll>> \o CheckAllNVIDIA(pr["nvidia"])
        \o CheckAllIntel(pr["intel"]) \o CheckAllAMD(pr["amd"])

\* ------------------------------------------------------------- Selector
\* the index at which a loop over the catalog returns, given for each
\* entry whether it satisfies the condition of the loop; 0 when the loop
\* ends without returning
FirstIndex(matches) ==
    IF \E i \in 1..Len(matches) : matches[i]
    THEN CHOOSE i \in 1..Len(matches) :
            matches[i] /\ \A j \in 1..(i - 1) : ~matches[j]
    ELSE 0

\* the condition of the loop of the explicit selection
ExactMatchAnyIndex(gpu, deviceType, deviceID) ==
    gpu.Type = deviceType /\ gpu.Available

ExactMatch(gpu, deviceType, deviceID) ==
    gpu.Type = deviceType /\ gpu.DeviceID = deviceID /\ gpu.Available

\* the condition of the step that forces CPU encoding
ForceCPUNever(deviceType) == FALSE

ForceCPU(deviceType) == deviceType = "none"

\* the priority order of the automatic selection
PriorityCPUFirst == <<"cpu", "nvidia", "intel", "amd">>

Priority == <<"nvidia", "intel", "amd", "cpu">>

\* the automatic selection from priority position k on
RECURSIVE AutoSelect(_, _)
AutoSelect(gpus, k) ==
    IF k > Len(Priority)
    THEN [hw |-> NoDevice, err |-> "ErrNoSuitableHardware"]
    ELSE LET i == FirstIndex([n \in 1..Len(gpus) |->
                        gpus[n].Type = Priority[k] /\ gpus[n].Available])
         IN  IF i > 0 THEN [hw |-> gpus[i], err |-> "none"]
             ELSE AutoSelect(gpus, k + 1)

\* the steps of SelectHardware after the explicit selection
SelectFallback(gpus, pref, deviceType) ==
    LET c == FirstIndex([n \in 1..Len(gpus) |-> gpus[n].Type = "cpu"])
        p == FirstIndex([n \in 1..Len(gpus) |->
                gpus[n].Type = pref /\ gpus[n].Available])
    IN  IF ForceCPU(deviceType) /\ c > 0 THEN [hw |-> gpus[c], err |-> "none"]
        ELSE IF pref # "auto" /\ p > 0 THEN [hw |-> gpus[p], err |-> "none"]
        ELSE AutoSelect(gpus, 1)

SelectHardware(gpus, pref, deviceType, deviceID) ==
    LET x == FirstIndex([n \in 1..Len(gpus) |->
                ExactMatch(gpus[n], deviceType, deviceID)])
    IN  IF Len(gpus) = 0 THEN [hw |-> NoDevice, err |-> "ErrNoHardware"]
        ELSE IF deviceType \notin {"auto", "none", ""}
        THEN (IF x > 0 THEN [hw |-> gpus[x], err |-> "none"]
              ELSE [hw |-> NoDevice, err |-> "ErrDeviceNotFound"])
        ELSE SelectFallback(gpus, pref, deviceType)

\* the values the configuration gives the preference of a Selector
Preferences == {"auto", "none", "cpu", "nvidia", "intel", "amd"}

\* the device kinds and indices a caller of SelectHardware passes
DeviceTypes == {"auto", "none", "", "cpu", "nvidia", "intel", "amd"}
DeviceIDs == 0..MaxDevices

\* NewSelector on a machine whose probes have any of their outcomes
InitSelector ==
    /\ InitBuffer /\ InitManager
    /\ ppc = "idle" /\ cpc = "idle"
    /\ minThreshold = 0 /\ ratioNum = 0 /\ srcLen = 0
    /\ maxRetries = 0
    /\ hasStdin = FALSE
    /\ InitTranscoder
    /\ probes \in [Vendors -> UNION {ProbeResults(v) : v \in Vendors}]
    /\ \A v \in Vendors : probes[v] \in ProbeResults(v)
    /\ preferred \in Preferences
    /\ availableGPUs = <<>> /\ initialized = FALSE
    /\ devices = <<>>
    /\ selCall = [called |-> FALSE, deviceType |-> "", deviceID |-> 0,
                  hw |-> NoDevice, err |-> "none"]
    /\ InitNoCommand /\ InitNoRequest
    /\ InitNoData

\* Selector.Initialize; it returns ErrNoHardware for an empty catalog
S_Initialize ==
    /\ ~initialized
    /\ availableGPUs' = DetectGPUs(probes)
    /\ initialized' = (Len(DetectGPUs(probes)) # 0)
    /\ UNCHANGED <<probes, preferred, devices, selCall>>
    /\ UNCHANGED <<ringVars, ringLocals, ppc, cpc, srcPos, sessVars, raceVars,
                   retryVars, starved, lateRead, proc, tcVars>>
    /\ UNCHANGED <<cmdVars, reqVars, dataVars>>

\* main's listing of the devices
S_DetectAll ==
    /\ devices = <<>>
    /\ devices' = DetectAllDevices(probes)
    /\ UNCHANGED <<probes, preferred, availableGPUs, initialized, selCall>>
    /\ UNCHANGED <<ringVars, ringLocals, ppc, cpc, srcPos, sessVars, raceVars,
                   retryVars, starved, lateRead, proc, tcVars>>
    /\ UNCHANGED <<cmdVars, reqVars, dataVars>>

\* a call of SelectHardware on the Selector NewStreamTranscoder initialized
S_Select(deviceType, deviceID) ==
    /\ initialized
    /\ LET r == SelectHardware(availableGPUs, preferred, deviceType, deviceID)
       IN  selCall' = [called |-> TRUE, deviceType |-> deviceType,
                       deviceID |-> deviceID, hw |-> r.hw, err |-> r.err]
    /\ UNCHANGED <<probes, preferred, availableGPUs, initialized, devices>>
    /\ UNCHANGED <<ringVars, ringLocals, ppc, cpc, srcPos, sessVars, raceVars,
                   retryVars, starved, lateRead, proc, tcVars>>
    /\ UNCHANGED <<cmdVars, reqVars, dataVars>>

NextSelector ==
    \/ S_Initialize
    \/ S_DetectAll
    \/ \E t \in DeviceTypes, i \in DeviceIDs : S_Select(t, i)

SpecSelector == InitSelector /\ [][NextSelector]_vars

\* ---------------------------------------------------------------- C23
CatalogEntries == {availableGPUs[i] : i \in 1..Len(availableGPUs)}

\* C23: a selection with an explicit device kind and index returns exactly
\* the catalog entry of that kind and index, and fails with DeviceNotFound
\* when the catalog has no such entry; it never returns an entry of another
\* kind or index.
C23_ExplicitSelectsExactly ==
    (selCall.called /\ selCall.deviceType \in {"cpu"} \cup Vendors) =>
        IF \E g \in CatalogEntries :
              g.Type = selCall.deviceType /\ g.DeviceID = selCall.deviceID
        THEN /\ selCall.err = "none"
             /\ selCall.hw \in CatalogEntries
             /\ selCall.hw.Type = selCall.deviceType
             /\ selCall.hw.DeviceID = selCall.deviceID
        ELSE selCall.err = "ErrDeviceNotFound" /\ selCall.hw = NoDevice

\* NVIDIA index 1 is asked for on a catalog that lists only NVIDIA index 0
C23_Witness ==
    /\ selCall.called
    /\ selCall.deviceType = "nvidia" /\ selCall.deviceID = 1
    /\ \E g \in CatalogEntries : g.Type = "nvidia" /\ g.DeviceID = 0
    /\ selCall.err = "ErrDeviceNotFound"

\* ---------------------------------------------------------------- C24
\* C24: a selection with device kind "none" yields the CPU entry, whatever
\* the catalog lists and whatever the configured preference is.
C24_NoneYieldsCPU ==
    (selCall.called /\ selCall.deviceType = "none") =>
        (selCall.err = "none" /\ selCall.hw.Type = "cpu")

\* "none" is asked for while NVIDIA is preferred and catalogued
C24_Witness ==
    /\ selCall.called /\ selCall.deviceType = "none"
    /\ preferred = "nvidia"
    /\ \E g \in CatalogEntries : g.Type = "nvidia"
    /\ selCall.hw.Type = "cpu"

\* ---------------------------------------------------------------- C25
C25_Rank(kind) ==
    CASE kind = "nvidia" -> 1 [] kind = "intel" -> 2 [] kind = "amd" -> 3
      [] OTHER -> 4

\* C25: an automatic selection without a configured preference returns an
\* available catalog entry of the highest kind the catalog lists, in the
\* order NVIDIA, Intel, AMD, CPU; it fails only for an empty catalog.
C25_AutoPicksHighestKind ==
    (selCall.called /\ selCall.deviceType = "auto" /\ preferred = "auto") =>
        /\ selCall.err # "none" => CatalogEntries = {}
        /\ CatalogEntries # {} =>
            /\ selCall.hw \in CatalogEntries
            /\ selCall.hw.Available
            /\ \A g \in CatalogEntries :
                  C25_Rank(selCall.hw.Type) <= C25_Rank(g.Type)

\* Intel is chosen on a catalog that lists CPU, Intel and AMD
C25_Witness ==
    /\ selCall.called /\ selCall.deviceType = "auto" /\ preferred = "auto"
    /\ {g.Type : g \in CatalogEntries} = {"cpu", "intel", "amd"}
    /\ selCall.hw.Type = "intel"

\* ---------------------------------------------------------------- C30
\* the CPU entry the catalog is said to hold
C30_HasFullCpuEntry(catalog) ==
    \E i \in 1..Len(catalog) :
        /\ catalog[i].Type = "cpu" /\ catalog[i].Available
        /\ {"h264", "h265", "vp9", "mpeg2"} \subseteq catalog[i].Capabilities

\* C30: discovery never fails, and whatever the probe of each vendor finds
\* (tool absent, no device, no confirmed codec, success), the catalog holds
\* an available CPU entry with the capabilities h264, h265, vp9 and mpeg2.
C30_CpuAlwaysCatalogued ==
    /\ availableGPUs # <<>> => (initialized /\ C30_HasFullCpuEntry(availableGPUs))
    /\ devices # <<>> => C30_HasFullCpuEntry(devices)

\* ------------------------------------------------------------- Profiles
\* the common arguments of both profile constructors
CommonArgs ==
    <<"-err_detect", "ignore_err",
      "-fflags", "+genpts+discardcorrupt+nobuffer",
      "-analyzeduration", "10M",
      "-probesize", "10M",
      "-max_delay", "5000000",
      "-reconnect", "1",
      "-reconnect_at_eof", "1",
      "-reconnect_streamed", "1",
      "-reconnect_delay_max", "5",
      "-f", "mpegts",
      "-mpegts_copyts", "1",
      "-avoid_negative_ts", "disabled",
      "-max_muxing_queue_size", "1024">>

\* the video codec specific arguments of CreateProfile
ProfileVideoArgs(videoCodec, videoBitrate) ==
    CASE videoCodec = "mpeg2" ->
            <<"-c:v", "mpeg2video", "-b:v", videoBitrate,
              "-maxrate", "8000k", "-bufsize", "4000k", "-g", "15",
              "-bf", "2", "-pix_fmt", "yuv420p">>
      [] videoCodec = "h264" ->
            <<"-c:v", "libx264", "-b:v", videoBitrate, "-preset", "medium",
              "-profile:v", "high", "-level", "4.1", "-pix_fmt", "yuv420p">>
      [] videoCodec = "h265" ->
            <<"-c:v", "libx265", "-b:v", videoBitrate, "-preset", "medium",
              "-pix_fmt", "yuv420p">>
      [] videoCodec = "copy" -> <<"-c:v", "copy">>
      [] OTHER -> <<>>

\* the audio codec specific arguments of CreateProfile
ProfileAudioArgs(audioCodec, audioBitrate) ==
    CASE audioCodec = "mp2" ->
            <<"-c:a", "mp2", "-b:a", audioBitrate, "-ar", "48000", "-ac", "2">>
      [] audioCodec = "mp3" ->
            <<"-c:a", "libmp3lame", "-b:a", audioBitrate, "-ar", "44100",
              "-ac", "2">>
      [] audioCodec = "aac" ->
            <<"-c:a", "aac", "-b:a", audioBitrate, "-ar", "48000", "-ac", "2">>
      [] audioCodec = "copy" -> <<"-c:a", "copy">>
      [] OTHER -> <<>>

CreateProfile(videoCodec, audioCodec, videoBitrate, audioBitrate) ==
    [Name |-> "custom", VideoCodec |-> videoCodec, AudioCodec |-> audioCodec,
     HardwareAccel |-> "",
     VideoBitrate |-> videoBitrate, AudioBitrate |-> audioBitrate,
     Container |-> "mpegts",
     ExtraArgs |-> CommonArgs \o ProfileVideoArgs(videoCodec, videoBitrate)
                     \o ProfileAudioArgs(audioCodec, audioBitrate)]

\* NewTranscodingProfile for a configuration c with custom quality settings
NewTranscodingProfile(c) ==
    IF c.TranscodeMode = "copy"
    THEN [Name |-> "stream", VideoCodec |-> "copy", AudioCodec |-> "copy",
          HardwareAccel |-> "", VideoBitrate |-> "", AudioBitrate |-> "",
          Container |-> "mpegts", ExtraArgs |-> CommonArgs]
    ELSE [Name |-> "stream", VideoCodec |-> c.VideoCodec,
          AudioCodec |-> c.AudioCodec, HardwareAccel |-> "",
          VideoBitrate |-> c.CustomVideoBitrate,
          AudioBitrate |-> c.CustomAudioBitrate,
          Container |-> "mpegts", ExtraArgs |-> CommonArgs]

ApplyHardware(profile, hw) ==
    IF profile.VideoCodec = "copy" THEN profile
    ELSE [profile EXCEPT !.HardwareAccel = hw.Type]

\* ------------------------------------------------ Selector.GetFFmpegArgs
\* fmt.Sprintf("%d", hw.DeviceID)
DeviceIndexArg(id) == CASE id = 0 -> "0" [] id = 1 -> "1" [] OTHER -> "2"

\* fmt.Sprintf("vaapi=va:%s", hw.DevicePath)
VaapiInitArg(path) ==
    CASE path = "/dev/dri/renderD128" -> "vaapi=va:/dev/dri/renderD128"
      [] path = "/dev/dri/renderD129" -> "vaapi=va:/dev/dri/renderD129"
      [] path = "/dev/dri/renderD130" -> "vaapi=va:/dev/dri/renderD130"
      [] path = "/dev/dri/renderD131" -> "vaapi=va:/dev/dri/renderD131"
      [] OTHER -> "vaapi=va:"

\* strings.Contains(hw.DevicePath, "/dev/dri")
ContainsDevDri(path) ==
    path \in {RenderNode(v, k) : v \in {"intel", "amd"}, k \in 1..MaxDevices}

getNVIDIAVideoArgs(hw, videoCodec) ==
    (IF hw.DeviceID >= 0 THEN <<"-gpu", DeviceIndexArg(hw.DeviceID)>> ELSE <<>>)
    \o (CASE videoCodec = "h264" ->
                <<"-c:v", "h264_nvenc", "-preset", "p4", "-tune", "hq",
                  "-rc", "vbr", "-rc-lookahead", "20",
                  "-b_ref_mode", "middle">>
          [] videoCodec \in {"h265", "hevc"} ->
                <<"-c:v", "hevc_nvenc", "-preset", "p4", "-tune", "hq",
                  "-rc", "vbr">>
          [] OTHER -> <<>>)

\* getIntelVideoArgs and getAMDVAAPIArgs
getVAAPIVideoArgs(hw, videoCodec) ==
    (IF hw.DevicePath # ""
     THEN <<"-init_hw_device", VaapiInitArg(hw.DevicePath),
            "-filter_hw_device", "va">>
     ELSE <<>>)
    \o (CASE videoCodec = "h264" ->
                <<"-c:v", "h264_vaapi", "-vaapi_device", hw.DevicePath>>
          [] videoCodec \in {"h265", "hevc"} ->
                <<"-c:v", "hevc_vaapi", "-vaapi_device", hw.DevicePath>>
          [] OTHER -> <<>>)

getAMDAMFArgs(videoCodec) ==
    CASE videoCodec = "h264" ->
            <<"-c:v", "h264_amf", "-usage", "transcoding",
              "-quality", "balanced">>
      [] videoCodec \in {"h265", "hevc"} ->
            <<"-c:v", "hevc_amf", "-usage", "transcoding",
              "-quality", "balanced">>
      [] OTHER -> <<>>

getAMDVideoArgs(hw, videoCodec) ==
    IF ContainsDevDri(hw.DevicePath) THEN getVAAPIVideoArgs(hw, videoCodec)
    ELSE getAMDAMFArgs(videoCodec)

getCPUVideoArgs(videoCodec) ==
    CASE videoCodec = "h264" -> <<"-c:v", "libx264">>
      [] videoCodec \in {"h265", "hevc"} -> <<"-c:v", "libx265">>
      [] OTHER -> <<>>

getVideoCodecArgs(hw, videoCodec) ==
    IF videoCodec = "copy" THEN <<"-c:v", "copy">>
    ELSE CASE hw.Type = "nvidia" -> getNVIDIAVideoArgs(hw, videoCodec)
           [] hw.Type = "intel" -> getVAAPIVideoArgs(hw, videoCodec)
           [] hw.Type = "amd" -> getAMDVideoArgs(hw, videoCodec)
           [] OTHER -> getCPUVideoArgs(videoCodec)

getAudioCodecArgs(audioCodec) ==
    CASE audioCodec = "aac" -> <<"-c:a", "aac">>
      [] audioCodec = "mp3" -> <<"-c:a", "libmp3lame">>
      [] audioCodec = "copy" -> <<"-c:a", "copy">>
      [] OTHER -> <<>>

getBitrateArgs(profile) ==
    (IF /\ profile.VideoBitrate \notin {"", "adaptive"}
        /\ profile.VideoCodec # "copy"
     THEN <<"-b:v", profile.VideoBitrate>> ELSE <<>>)
    \o (IF /\ profile.AudioBitrate \notin {"", "adaptive"}
           /\ profile.AudioCodec # "copy"
        THEN <<"-b:a", profile.AudioBitrate>> ELSE <<>>)

GetFFmpegArgs(hw, profile) ==
    getVideoCodecArgs(hw, profile.VideoCodec)
    \o getAudioCodecArgs(profile.AudioCodec)
    \o getBitrateArgs(profile)
    \o (IF profile.Container # "" THEN <<"-f", profile.Container>> ELSE <<>>)
    \o profile.ExtraArgs

\* ------------------------------------------- FFmpegTranscoder.buildCommand
\* hasArg
hasArg(args, arg) == \E i \in 1..Len(args) : args[i] = arg

\* the flags categorizeHardwareArgs puts into the global section
GlobalFlagsNone == {}

GlobalFlags == {"-vaapi_device", "-init_hw_device", "-filter_hw_device"}

\* the section categorizeHardwareArgs puts a flag with its value into,
\* "" for a token it handles alone
HwSection(flag) ==
    CASE flag = "-gpu" -> "video"
      [] flag \in GlobalFlags -> "global"
      [] flag \in {"-c:v", "-b:v"} -> "video"
      [] flag \in {"-c:a", "-b:a"} -> "audio"
      [] OTHER -> ""

\* one iteration of the loop of categorizeHardwareArgs at index st.i
\* (1-based), with its i++; nothing once the index is past the end
HardwareArgStep(args, st) ==
    IF st.i > Len(args) THEN st
    ELSE IF HwSection(args[st.i]) = ""
    THEN [i |-> st.i + 1,
          sections |-> [st.sections EXCEPT !.video = Append(@, args[st.i])]]
    ELSE IF st.i + 1 <= Len(args)
    THEN [i |-> st.i + 2,
          sections |-> [st.sections EXCEPT ![HwSection(args[st.i])] =
                            @ \o <<args[st.i], args[st.i + 1]>>]]
    ELSE [i |-> st.i + 1, sections |-> st.sections]

\* up to n iterations of the loop of categorizeHardwareArgs, which ends
\* when the index has passed the end of args
RECURSIVE HardwareArgLoop(_, _, _)
HardwareArgLoop(args, n, st) ==
    IF n = 0 THEN st
    ELSE IF n = 1 THEN HardwareArgStep(args, st)
    ELSE LET half == HardwareArgLoop(args, n \div 2, st)
         IN  IF half.i > Len(args) THEN half
             ELSE HardwareArgLoop(args, n - (n \div 2), half)

\* the loop runs until the index passes the end: at most Len(args) times
categorizeHardwareArgs(args, sections) ==
    HardwareArgLoop(args, Len(args), [i |-> 1, sections |-> sections]).sections

\* the section whose content decides whether categorizeProfileArgs keeps a
\* codec or bitrate flag of the profile
ProfileSection(flag) == IF flag \in {"-c:v", "-b:v"} THEN "video" ELSE "audio"

\* one iteration of the loop of categorizeProfileArgs at index st.i
ProfileArgStep(args, st) ==
    IF st.i > Len(args) THEN st
    ELSE IF args[st.i] = "-f"
    THEN (IF st.i + 1 <= Len(args)
          THEN [i |-> st.i + 2,
                sections |-> [st.sections EXCEPT !.output =
                                  @ \o <<args[st.i], args[st.i + 1]>>]]
          ELSE [i |-> st.i + 1, sections |-> st.sections])
    ELSE IF args[st.i] \in {"-c:v", "-c:a", "-b:v", "-b:a"}
    THEN (IF ~hasArg(st.sections[ProfileSection(args[st.i])], args[st.i])
              /\ st.i + 1 <= Len(args)
          THEN [i |-> st.i + 2,
                sections |-> [st.sections EXCEPT
                                  ![ProfileSection(args[st.i])] =
                                      @ \o <<args[st.i], args[st.i + 1]>>]]
          ELSE IF st.i + 1 <= Len(args)
          THEN [i |-> st.i + 2, sections |-> st.sections]
          ELSE [i |-> st.i + 1, sections |-> st.sections])
    ELSE [i |-> st.i + 1,
          sections |-> [st.sections EXCEPT !.output = Append(@, args[st.i])]]

\* up to n iterations of the loop of categorizeProfileArgs
RECURSIVE ProfileArgLoop(_, _, _)
ProfileArgLoop(args, n, st) ==
    IF n = 0 THEN st
    ELSE IF n = 1 THEN ProfileArgStep(args, st)
    ELSE LET half == ProfileArgLoop(args, n \div 2, st)
         IN  IF half.i > Len(args) THEN half
             ELSE ProfileArgLoop(args, n - (n \div 2), half)

categorizeProfileArgs(args, sections) ==
    ProfileArgLoop(args, Len(args), [i |-> 1, sections |-> sections]).sections

\* the sections buildCommand starts from
InitialSections ==
    [global |-> <<"-hide_banner", "-loglevel", "warning", "-stats">>,
     input |-> <<>>, filters |-> <<>>, video |-> <<>>, audio |-> <<>>,
     output |-> <<>>]

\* the input options buildCommand adds
InputArgs(inputURL) ==
    <<"-fflags", "+genpts+discardcorrupt+nobuffer",
      "-err_detect", "ignore_err", "-i", inputURL>>

buildCommand(hw, profile, inputURL) ==
    LET s1 == categorizeHardwareArgs(GetFFmpegArgs(hw, profile),
                                     InitialSections)
        s2 == [s1 EXCEPT !.input = @ \o InputArgs(inputURL)]
        s3 == categorizeProfileArgs(profile.ExtraArgs, s2)
        args == s3.global \o s3.input \o s3.filters \o s3.video \o s3.audio
                    \o s3.output
    IN  (IF ~hasArg(s3.output, "-f")
         THEN args \o <<"-f", profile.Container>> ELSE args)
        \o <<"pipe:1">>

\* ---------------------------------------------- the command-line model
\* the source URL of a stream
InputURL == "http://upstream/stream.ts"

\* the devices a Selector can return: the entries of its catalog
HardwareChoices ==
    {CpuEntryGPUs, NvidiaDevice(1), VaapiDevice("intel", 1),
     VaapiDevice("amd", 1), AmfDevice}

VideoCodecs == {"h264", "h265", "hevc", "mpeg2", "copy"}
AudioCodecs == {"aac", "mp3", "mp2", "copy"}
VideoBitrates == {"", "adaptive", "2000k"}
AudioBitrates == {"", "128k"}

\* the profiles of CreateProfile
CreatedProfiles ==
    {CreateProfile(vc, ac, vb, ab) :
        vc \in VideoCodecs, ac \in AudioCodecs,
        vb \in VideoBitrates, ab \in AudioBitrates}

\* the profiles of NewTranscodingProfile
StreamProfiles ==
    {NewTranscodingProfile(
        [TranscodeMode |-> m, VideoCodec |-> vc, AudioCodec |-> ac,
         CustomVideoBitrate |-> vb, CustomAudioBitrate |-> ab]) :
        m \in {"transcode", "copy"}, vc \in VideoCodecs, ac \in AudioCodecs,
        vb \in VideoBitrates, ab \in AudioBitrates}

InitCommand ==
    /\ InitBuffer /\ InitManager
    /\ ppc = "idle" /\ cpc = "idle"
    /\ minThreshold = 0 /\ ratioNum = 0 /\ srcLen = 0
    /\ maxRetries = 0
    /\ hasStdin = FALSE
    /\ InitTranscoder
    /\ InitNoHardware
    /\ InitNoCommand /\ InitNoRequest
    /\ InitNoData

\* ApplyHardware and NewFFmpegTranscoder, as NewTranscoder and
\* TranscodeStream call them
B_NewTranscoder(hw, profile) ==
    /\ thw = NoDevice /\ tprofile = NoProfile
    /\ thw' = hw
    /\ tprofile' = ApplyHardware(profile, hw)
    /\ UNCHANGED cmdArgs
    /\ UNCHANGED <<ringVars, ringLocals, ppc, cpc, srcPos, sessVars, raceVars,
                   retryVars, starved, lateRead, proc, tcVars, hwVars, reqVars>>
    /\ UNCHANGED dataVars

\* buildCommand, as Start calls it
B_BuildCommand ==
    /\ tprofile # NoProfile /\ cmdArgs = <<>>
    /\ cmdArgs' = buildCommand(thw, tprofile, InputURL)
    /\ UNCHANGED <<thw, tprofile>>
    /\ UNCHANGED <<ringVars, ringLocals, ppc, cpc, srcPos, sessVars, raceVars,
                   retryVars, starved, lateRead, proc, tcVars, hwVars, reqVars>>
    /\ UNCHANGED dataVars

NextCommand ==
    \/ \E hw \in HardwareChoices, p \in CreatedProfiles \cup StreamProfiles :
          B_NewTranscoder(hw, p)
    \/ B_BuildCommand

SpecCommand == InitCommand /\ [][NextCommand]_vars

\* ---------------------------------------------------------------- C21
\* how often a token occurs in the built command line
C21_Count(flag) == Cardinality({i \in 1..Len(cmdArgs) : cmdArgs[i] = flag})

\* C21: in the command line the transcoder builds, each of the video codec,
\* audio codec, video bitrate and audio bitrate flags occurs at most once,
\* for every device kind and every profile of either profile constructor.
C21_CodecFlagsOnce ==
    \A flag \in {"-c:v", "-c:a", "-b:v", "-b:a"} : C21_Count(flag) <= 1

\* ---------------------------------------------------------------- C22
C22_DeviceInitFlags == {"-init_hw_device", "-filter_hw_device", "-vaapi_device"}
C22_CodecFlags == {"-c:v", "-c:a", "-b:v", "-b:a"}
C22_Positions(tokens) == {i \in 1..Len(cmdArgs) : cmdArgs[i] \in tokens}

\* C22: in the built command line every device-initialization argument
\* precedes the input declaration, every codec and bitrate argument follows
\* the source URL, the source URL occurs exactly once (as the value of the
\* one input declaration), and the sink "pipe:1" is the last argument.
C22_CommandOrder ==
    cmdArgs # <<>> =>
        /\ Cardinality(C22_Positions({"-i"})) = 1
        /\ Cardinality(C22_Positions({InputURL})) = 1
        /\ \A i \in C22_Positions({"-i"}) :
              /\ i < Len(cmdArgs) /\ cmdArgs[i + 1] = InputURL
              /\ \A d \in C22_Positions(C22_DeviceInitFlags) : d < i
              /\ \A c \in C22_Positions(C22_CodecFlags) : c > i + 1
        /\ cmdArgs[Len(cmdArgs)] = "pipe:1"

\* a command line for a VA-API device that holds all three
\* device-initialization flags and all four codec and bitrate flags
C22_Witness ==
    /\ cmdArgs # <<>>
    /\ thw.Type = "intel"
    /\ \A f \in C22_DeviceInitFlags \cup C22_CodecFlags :
          C22_Positions({f}) # {}

\* ---------------------------------------------------------------- C28
C28_AccelerationArgs ==
    {"-gpu", "-init_hw_device", "-filter_hw_device", "-vaapi_device",
     "h264_nvenc", "hevc_nvenc", "h264_vaapi", "hevc_vaapi",
     "h264_amf", "hevc_amf"}

\* C28: for the video codec mpeg2 the arguments of the Selector hold no
\* acceleration argument (GPU index selector, device initialization,
\* hardware encoder name), whatever device they are built for.
C28_Mpeg2NoAcceleration ==
    (cmdArgs # <<>> /\ tprofile.VideoCodec = "mpeg2") =>
        LET args == GetFFmpegArgs(thw, tprofile)
        IN  \A i \in 1..Len(args) : args[i] \notin C28_AccelerationArgs

\* ------------------------------------------------------------- Validator
\* Validator.GetSupportedCodecs
GetSupportedCodecs(hw) ==
    CASE hw.Type = "nvidia" -> {"h264", "h265"}
      [] hw.Type = "intel" ->
            {"h264", "h265"} \cup (hw.Capabilities \cap {"vp9"})
      [] hw.Type = "amd" -> {"h264", "h265"}
      [] hw.Type \in {"cpu", "auto"} -> {"h264", "h265", "vp9", "mpeg2"}
      [] OTHER -> {}

\* ------------------------------------------------- the stream handler
\* the configurations Config.Validate accepts (quality settings aside)
Configs ==
    [HardwareDevice : {"auto", "none", "nvidia:0", "intel:0", "amd:0"},
     TranscodeMode : {"transcode", "copy"},
     VideoCodec : {"h264", "h265", "vp9", "mpeg2"},
     AudioCodec : {"aac", "mp3"}]

\* the bitrates getVideoBitrate and getAudioBitrate return
ConfiguredVideoBitrate == "2000k"
ConfiguredAudioBitrate == "128k"

\* the proxy.TranscoderConfig NewStreamV2Handler builds (buffer settings
\* aside)
TranscoderConfig(c) ==
    [VideoCodec |-> IF c.TranscodeMode = "copy" THEN "copy" ELSE c.VideoCodec,
     AudioCodec |-> IF c.TranscodeMode = "copy" THEN "copy" ELSE c.AudioCodec,
     VideoBitrate |-> IF c.TranscodeMode = "copy" THEN ""
                      ELSE ConfiguredVideoBitrate,
     AudioBitrate |-> IF c.TranscodeMode = "copy" THEN ""
                      ELSE ConfiguredAudioBitrate,
     HardwareAccel |-> IF c.HardwareDevice = "none" THEN "none" ELSE "auto"]

\* the configuration TranscodeStream hands to NewTranscodingProfile
ProfileConfig(tc) ==
    [TranscodeMode |-> IF tc.VideoCodec = "copy" /\ tc.AudioCodec = "copy"
                       THEN "copy" ELSE "transcode",
     VideoCodec |-> tc.VideoCodec, AudioCodec |-> tc.AudioCodec,
     CustomVideoBitrate |-> tc.VideoBitrate,
     CustomAudioBitrate |-> tc.AudioBitrate]

\* the process has loaded a configuration; no handler exists yet
InitRequest ==
    /\ InitBuffer /\ InitManager
    /\ ppc = "idle" /\ cpc = "idle"
    /\ minThreshold = 0 /\ ratioNum = 0 /\ srcLen = 0
    /\ maxRetries = 0
    /\ hasStdin = FALSE
    /\ InitTranscoder
    /\ probes \in [Vendors -> UNION {ProbeResults(v) : v \in Vendors}]
    /\ \A v \in Vendors : probes[v] \in ProbeResults(v)
    /\ preferred = "auto"
    /\ availableGPUs = <<>> /\ initialized = FALSE
    /\ devices = <<>>
    /\ selCall = [called |-> FALSE, deviceType |-> "", deviceID |-> 0,
                  hw |-> NoDevice, err |-> "none"]
    /\ InitNoCommand
    /\ cfg \in Configs
    /\ hpc = "none" /\ resp = NoResponse /\ tsErr = "none"
    /\ InitNoData

\* NewStreamV2Handler, with NewStreamTranscoder and Selector.Initialize
R_NewHandler ==
    /\ hpc = "none"
    /\ preferred' = TranscoderConfig(cfg).HardwareAccel
    /\ availableGPUs' = DetectGPUs(probes)
    /\ initialized' = (Len(DetectGPUs(probes)) # 0)
    /\ hpc' = IF Len(DetectGPUs(probes)) # 0 THEN "ready" ELSE "nohandler"
    /\ UNCHANGED <<probes, devices, selCall, cmdVars, cfg, resp, tsErr>>
    /\ UNCHANGED <<ringVars, ringLocals, ppc, cpc, srcPos, sessVars, raceVars,
                   retryVars, starved, lateRead, proc, tcVars>>
    /\ UNCHANGED dataVars

\* ServeHTTP up to its call of TranscodeStream, for a request whose path is
\* empty, is not a valid encoding, or names a URL
R_ServeHTTP(path) ==
    /\ hpc = "ready"
    /\ IF path \in {"empty", "badenc"}
       THEN resp' = [status |-> 400, body |-> 1] /\ hpc' = "returned"
       ELSE resp' = resp /\ hpc' = "transcoding"
    /\ UNCHANGED <<hwVars, cmdVars, cfg, tsErr>>
    /\ UNCHANGED <<ringVars, ringLocals, ppc, cpc, srcPos, sessVars, raceVars,
                   retryVars, starved, lateRead, proc, tcVars>>
    /\ UNCHANGED dataVars

\* TranscodeStream from the hardware selection to NewFFmpegTranscoder
R_Select ==
    /\ hpc = "transcoding"
    /\ LET tc == TranscoderConfig(cfg)
           deviceType == IF tc.HardwareAccel \in {"none", ""} THEN "none"
                         ELSE "auto"
           r == SelectHardware(availableGPUs, preferred, deviceType, 0)
       IN  /\ selCall' = [called |-> TRUE, deviceType |-> deviceType,
                          deviceID |-> 0, hw |-> r.hw, err |-> r.err]
           /\ IF r.err # "none"
              THEN /\ tsErr' = "failed to select hardware"
                   /\ hpc' = "failed"
                   /\ UNCHANGED <<thw, tprofile>>
              ELSE /\ thw' = r.hw
                   /\ tprofile' =
                        ApplyHardware(NewTranscodingProfile(ProfileConfig(tc)),
                                      r.hw)
                   /\ hpc' = "constructed"
                   /\ UNCHANGED tsErr
    /\ UNCHANGED <<probes, preferred, availableGPUs, initialized, devices>>
    /\ UNCHANGED <<cmdArgs, cfg, resp>>
    /\ UNCHANGED <<ringVars, ringLocals, ppc, cpc, srcPos, sessVars, raceVars,
                   retryVars, starved, lateRead, proc, tcVars>>
    /\ UNCHANGED dataVars

\* transcoder.Start: the command line is built and the subprocess is
\* spawned, or a pipe or the spawn fails
R_Start(ok) ==
    /\ hpc = "constructed"
    /\ cmdArgs' = buildCommand(thw, tprofile, InputURL)
    /\ IF ok THEN hpc' = "started" /\ UNCHANGED tsErr
       ELSE hpc' = "failed" /\ tsErr' = "failed to start transcoder"
    /\ UNCHANGED <<thw, tprofile, cfg, resp>>
    /\ UNCHANGED hwVars
    /\ UNCHANGED <<ringVars, ringLocals, ppc, cpc, srcPos, sessVars, raceVars,
                   retryVars, starved, lateRead, proc, tcVars>>
    /\ UNCHANGED dataVars

\* the response headers are set and io.Copy runs: it writes n bytes to the
\* client (the first Write sends status 200) and ends with or without an
\* error
R_Stream(n, failed) ==
    /\ hpc = "started"
    /\ resp' = [status |-> IF n > 0 THEN 200 ELSE 0, body |-> n]
    /\ tsErr' = IF failed THEN "stream error" ELSE "none"
    /\ hpc' = "finished"
    /\ UNCHANGED <<hwVars, cmdVars, cfg>>
    /\ UNCHANGED <<ringVars, ringLocals, ppc, cpc, srcPos, sessVars, raceVars,
                   retryVars, starved, lateRead, proc, tcVars>>
    /\ UNCHANGED dataVars

\* ServeHTTP logs the error of TranscodeStream, if any, and returns; the
\* server then sends status 200 when the handler has written nothing
R_Return ==
    /\ hpc \in {"failed", "finished"}
    /\ resp' = IF resp.status = 0 THEN [resp EXCEPT !.status = 200] ELSE resp
    /\ hpc' = "returned"
    /\ UNCHANGED <<hwVars, cmdVars, cfg, tsErr>>
    /\ UNCHANGED <<ringVars, ringLocals, ppc, cpc, srcPos, sessVars, raceVars,
                   retryVars, starved, lateRead, proc, tcVars>>
    /\ UNCHANGED dataVars

NextRequest ==
    \/ R_NewHandler
    \/ \E path \in {"empty", "badenc", "url"} : R_ServeHTTP(path)
    \/ R_Select
    \/ \E ok \in BOOLEAN : R_Start(ok)
    \/ \E n \in 0..1, failed \in BOOLEAN : R_Stream(n, failed)
    \/ R_Return

SpecRequest == InitRequest /\ [][NextRequest]_vars

\* ---------------------------------------------------------------- C26
\* the hardware kind intel is configured, and the catalog of the Selector
\* lists the CPU and an NVIDIA device only
C26_IntelOnCpuNvidia ==
    /\ cfg.HardwareDevice = "intel:0"
    /\ {g.Type : g \in CatalogEntries} = {"cpu", "nvidia"}

\* C26: selecting the hardware kind intel on a catalog that lists only cpu
\* and nvidia fails with a selection error; neither the NVIDIA device nor
\* the CPU is returned in its place.
C26_IntelNotSubstituted ==
    (selCall.called /\ C26_IntelOnCpuNvidia) =>
        /\ selCall.err \in {"ErrNoSuitableHardware", "ErrDeviceNotFound"}
        /\ selCall.hw = NoDevice
        /\ thw = NoDevice

\* ---------------------------------------------------------------- C27
\* the hardware chosen for the request does not support the video codec of
\* the request
C27_Incompatible ==
    /\ selCall.called /\ selCall.err = "none"
    /\ TranscoderConfig(cfg).VideoCodec # "copy"
    /\ TranscoderConfig(cfg).VideoCodec \notin GetSupportedCodecs(selCall.hw)

\* C27: a stream request whose video codec the chosen hardware does not
\* support (mpeg2 with a GPU) is rejected with a compatibility error before
\* a profile or a transcoder is constructed and before an encoder is
\* started.
C27_IncompatibleRejected ==
    C27_Incompatible =>
        /\ tsErr # "none"
        /\ tprofile = NoProfile /\ thw = NoDevice /\ cmdArgs = <<>>
        /\ hpc \notin {"constructed", "started", "finished"}

\* ---------------------------------------------------------------- C29
\* C29: a stream request that fails before the first byte is written to the
\* client gets an explicit HTTP error response, not a success status with an
\* empty body.
C29_FailureIsErrorResponse ==
    (hpc = "returned" /\ tsErr # "none" /\ resp.body = 0) =>
        resp.status >= 400

\* ---------------------------------------------------------------- C31
\* C31 (as stated): a Write call and a Read call each make at most two
\* contiguous copies, whatever the data length and the cursor positions.
C31_TwoCopiesPerCall ==
    copyLog.write <= 2 /\ copyLog.read <= 2

\* C31 (amended): a Read call makes at most two contiguous copies, and so
\* does every locked section of a Write call, from the call or a wake-up to
\* the return or the next cond.Wait.
C31_TwoCopiesPerPass ==
    copyLog.read <= 2 /\ copyLog.pass <= 2

\* a Write wrapped around the end of the array in one locked section, and a
\* Read wrapped around it too
C31_Witness ==
    /\ copyLog.pass = 2 /\ copyLog.read = 2
    /\ ppc = "idle" /\ pret.err = "nil"

\* ------------------------------------------------------------ m3u.Parse
\* What the scanner and lines 40-67 make of a line: "toolong" is a line
\* beyond bufio.Scanner's token limit, at which Scan stops with ErrTooLong;
\* the others are the line after TrimSpace: empty, with the prefix #EXTM3U,
\* with the prefix #EXTINF:, any other line with the prefix #, and a line
\* without that prefix
LineKinds == {"blank", "header", "extinf", "comment", "url", "toolong"}

\* line 67: the line does not have the prefix #
IsURLOrComment(kind) == TRUE
IsURL(kind) == kind \notin {"header", "extinf", "comment"}

\* One pass of the scan loop (lines 38-72) over line i. st = [channels,
\* current, err, stop]: current is the line of currentChannel (0 for nil),
\* a channel is [Original, URL] with the lines its fields were taken from
ParseLine(lines, i, st) ==
    LET kind == lines[i]
    IN  IF kind = "toolong"
        THEN [st EXCEPT !.err = "scan", !.stop = TRUE]     \* Scan is false
        ELSE IF kind = "blank" \/ kind = "header"
        THEN st                                             \* lines 42-48
        ELSE IF kind = "extinf"
        THEN IF st.current # 0
             THEN [st EXCEPT !.err = "ErrOrphanedChannel", !.stop = TRUE]
             ELSE [st EXCEPT !.current = i]
        ELSE IF IsURL(kind) /\ st.current # 0
        THEN [st EXCEPT !.channels = Append(@, [Original |-> st.current,
                                                URL |-> i]),
                        !.current = 0]
        ELSE st

RECURSIVE ParseLoop(_, _, _)
ParseLoop(lines, i, st) ==
    IF i > Len(lines) \/ st.stop
    THEN st
    ELSE ParseLoop(lines, i + 1, ParseLine(lines, i, st))

\* Parse: the loop, then lines 74-82
Parse(lines) ==
    LET st == ParseLoop(lines, 1, [channels |-> <<>>, current |-> 0,
                                   err |-> "nil", stop |-> FALSE])
    IN  IF st.err = "ErrOrphanedChannel"
        THEN [channels |-> <<>>, err |-> "ErrOrphanedChannel"]
        ELSE IF st.err = "scan"
        THEN [channels |-> <<>>, err |-> "error scanning M3U data"]
        ELSE IF st.current # 0
        THEN [channels |-> <<>>, err |-> "ErrIncompleteChannel"]
        ELSE [channels |-> st.channels, err |-> "nil"]

\* the playlists: every sequence of at most MaxLines lines
Playlists == UNION {[1..n -> LineKinds] : n \in 0..MaxLines}

\* a playlist has been fetched; Parse has not been called on it
InitPlaylist ==
    /\ InitBuffer /\ InitManager
    /\ ppc = "idle" /\ cpc = "idle"
    /\ minThreshold = 0 /\ ratioNum = 0 /\ srcLen = 0
    /\ maxRetries = 0
    /\ hasStdin = FALSE
    /\ InitTranscoder
    /\ InitNoHardware
    /\ InitNoCommand /\ InitNoRequest
    /\ plData \in Playlists
    /\ plResult = NoResult
    /\ refresher = NoRefresher

\* the fetcher calls Parse on the data
M_Parse ==
    /\ ~plResult.called
    /\ plResult' = [called |-> TRUE, channels |-> Parse(plData).channels,
                    err |-> Parse(plData).err]
    /\ UNCHANGED <<plData, refresher>>
    /\ UNCHANGED <<ringVars, ringLocals, ppc, cpc, srcPos, sessVars, raceVars,
                   retryVars, starved, lateRead, proc, tcVars, hwVars,
                   cmdVars, reqVars>>

NextPlaylist == M_Parse

SpecPlaylist == InitPlaylist /\ [][NextPlaylist]_vars

\* ---------------------------------------------------------------- C32
\* the #EXTINF lines of a playlist, in input order
C32_Extinfs(lines) ==
    SelectSeq([i \in 1..Len(lines) |-> i], LAMBDA i : lines[i] = "extinf")

\* the first URL line after line i that comes before the next #EXTINF line
\* (0 if there is none)
C32_UrlOf(lines, i) ==
    LET js == {j \in (i + 1)..Len(lines) :
                 /\ lines[j] = "url"
                 /\ \A k \in (i + 1)..(j - 1) : lines[k] # "extinf"}
    IN  IF js = {} THEN 0 ELSE CHOOSE j \in js : \A k \in js : j <= k

\* a second #EXTINF line comes before a URL line for some #EXTINF line
C32_Orphaned(lines) ==
    \E i \in 1..Len(lines) :
       /\ lines[i] = "extinf" /\ C32_UrlOf(lines, i) = 0
       /\ \E j \in (i + 1)..Len(lines) : lines[j] = "extinf"

\* the last #EXTINF line has no URL line before the end of input
C32_Dangling(lines) ==
    \E i \in 1..Len(lines) :
       /\ lines[i] = "extinf" /\ C32_UrlOf(lines, i) = 0
       /\ \A j \in (i + 1)..Len(lines) : lines[j] # "extinf"

\* what the claim says Parse returns
C32_Expected(lines) ==
    IF C32_Orphaned(lines)
    THEN [channels |-> <<>>, err |-> "ErrOrphanedChannel"]
    ELSE IF C32_Dangling(lines)
    THEN [channels |-> <<>>, err |-> "ErrIncompleteChannel"]
    ELSE [channels |-> [k \in 1..Len(C32_Extinfs(lines)) |->
                          [Original |-> C32_Extinfs(lines)[k],
                           URL |-> C32_UrlOf(lines, C32_Extinfs(lines)[k])]],
          err |-> "nil"]

\* C32 (as stated): Parse succeeds iff every #EXTINF line is followed by a
\* URL line before the next #EXTINF line or the end of input; it fails with
\* the orphaned-channel error for a second #EXTINF before a URL, with the
\* incomplete-channel error for an #EXTINF left without URL at the end, and
\* on success returns one channel per #EXTINF line, in input order.
C32_ParseIffComplete ==
    plResult.called =>
       /\ plResult.err = C32_Expected(plData).err
       /\ plResult.channels = C32_Expected(plData).channels

\* C32 (amended): the same, for a playlist every line of which is within the
\* scanner's line limit.
C32_ParseIffCompleteScanned ==
    (plResult.called /\ \A i \in 1..Len(plData) : plData[i] # "toolong") =>
       /\ plResult.err = C32_Expected(plData).err
       /\ plResult.channels = C32_Expected(plData).channels

\* Parse returned two channels in input order, past a comment line between
\* an #EXTINF line and its URL
C32_Witness ==
    /\ plResult.called /\ plResult.err = "nil"
    /\ plData = <<"extinf", "comment", "url", "extinf", "url">>

\* ------------------------------------------- SpecRingOpen: no Close
\* the reader task calls Read with a buffer that is not empty
ReadCallData == ReadCall /\ clen' > 0

\* the buffer stays open, and the reader passes room for data
NextRingOpen == WriteCall \/ WriteStep \/ ReadCallData \/ ReadStep

\* What the scheduling guarantees: a goroutine that holds or can take b.mu
\* runs its locked section. That the reader keeps reading is the hypothesis
\* of the wake-up property: whenever it is between two calls it calls Read
\* again. The writer may stop writing at any time.
FairRingOpen ==
    /\ WF_vars(WriteStep)
    /\ WF_vars(ReadStep)
    /\ WF_vars(ReadCallData)

SpecRingOpen == InitRing /\ [][NextRingOpen]_vars /\ FairRingOpen

\* ---------------------------------------------------------------- C33
\* C33: on an open buffer with one writer and one reader no wake-up is
\* lost: a Write in progress (blocked on the full buffer or not, of more
\* than capacity - 1 bytes or not) returns having stored all of p when the
\* reader keeps reading; a step that stores a byte wakes the reader waiting
\* on the empty buffer, and the woken reader returns data at its next step;
\* no task is in cond.Wait while its condition holds.
C33_NoLostWakeup ==
    /\ (ppc \in {"writing", "parked", "woken"})
          ~> (ppc = "idle" /\ pret = [n |-> Len(pbuf), err |-> "nil"])
    /\ [][(cpc = "parked" /\ bytesWritten' # bytesWritten)
             => cpc' = "woken"]_vars
    /\ [][(cpc = "woken" /\ cpc' # cpc)
             => (cpc' = "idle" /\ cret'.n > 0 /\ cret'.err = "nil")]_vars
    /\ [](cpc = "parked" => Available(writePos, readPos) = 0)
    /\ [](ppc = "parked" => Free(writePos, readPos) = 0)

\* a Write of more than capacity - 1 bytes returned after it had waited for
\* the reader, and the reader had waited on the empty buffer before
C33_Witness ==
    /\ ppc = "idle" /\ Len(pbuf) > BufSize - 1
    /\ pret = [n |-> Len(pbuf), err |-> "nil"]
    /\ copyLog.write > copyLog.pass
    /\ cret.waited /\ cret.n > 0

\* ------------------------------------- SpecLifecycle: repeated Start
\* a later call of Start on the same transcoder: nothing in Start looks at
\* t.cmd or at what an earlier call did, only at t.closed (line 75). A call
\* that succeeds replaces t.cmd and the pipes; the subprocess of the earlier
\* call is no longer referenced.
T_StartAgain ==
    /\ startRet # "none"
    /\ spawns < MaxSpawns
    /\ StartBody

NextLifecycle ==
    \/ T_Start
    \/ T_StartAgain
    \/ \E k \in Closers : T_CloseCall(k) \/ T_CloseSteps(k)
    \/ EnvNext

SpecLifecycle == InitTranscoderSpec /\ [][NextLifecycle]_vars

\* ---------------------------------------------------------------- C34
\* C34: a transcoder only moves forward through Created, Started, Running,
\* Closed: for every sequence of Start and Close calls, closed is never
\* reset, a Start on a closed transcoder returns ErrTranscoderClosed and
\* spawns nothing, and at most one subprocess is spawned per transcoder.
C34_ForwardOnly ==
    /\ [][tclosed => tclosed']_vars
    /\ [][((T_Start \/ T_StartAgain) /\ tclosed)
            => (startRet' = "ErrTranscoderClosed" /\ spawns' = spawns
                /\ proc' = proc /\ pipes' = pipes)]_vars
    /\ [](spawns <= 1)

\* ---------------------------------------------------------------- C35
\* C35: a consumer read never reports end-of-stream before prefetchLoop has
\* finished: BufferManager.Read returns io.EOF (from WaitForData or from
\* CircularBuffer.Read) only after prefetchLoop has returned because the
\* source ended, a read failed after its retries, the context was cancelled
\* or the buffer was closed.
C35_NoPrematureEOF ==
    (wfdRet = "EOF" \/ cret.err = "EOF") => exitReason # "none"

\* ---------------------------------------------------------------- C36
\* prefetchLoop lines 73-78 against WaitForData line 139: the producer
\* sleeps because the level is above the ratio while fewer bytes than the
\* threshold are buffered; the source still holds data and nothing was
\* cancelled or closed
MutualWait ==
    /\ ppc \in {"check", "sleep"}
    /\ prefetchActive /\ ~cancelled /\ ~closed
    /\ srcPos < srcLen
    /\ Throttle(Available(writePos, readPos), ratioNum)
    /\ Available(writePos, readPos) < minThreshold

\* C36: for every accepted configuration, while the source keeps yielding
\* data, the threshold gate of WaitForData and the throttle of prefetchLoop
\* never wait on each other until the timeout: WaitForData never returns
\* its timeout error while the producer is throttling below the threshold.
C36_NoMutualWaitTimeout ==
    ~(wfdRet = "timeout" /\ MutualWait)

\* ---------------------------------------------------------------- C37
\* The sessions whose source is any io.Reader: a read may return bytes
\* together with io.EOF or with an error. min_threshold 1 and the middle
\* prefetch ratio, every source length and retry budget of InitSession.
InitReader ==
    /\ InitSession
    /\ minThreshold = 1 /\ ratioNum = 1

NextReader == NextSession \/ P_ReadTail \/ P_ReadErrData

SpecReader == InitReader /\ [][NextReader]_vars

\* C37: the bytes prefetchLoop writes into the ring buffer are exactly the
\* bytes the source's reads returned, in order, without omission or
\* duplication, also for bytes returned together with io.EOF or an error:
\* what the buffer accepted is always a prefix of what was read, and it is
\* all of it between two passes of the loop and once the loop has ended
\* because the source ended or failed.
C37_WrittenIsRead ==
    /\ IsPrefix(accepted, StreamBytes(0, srcPos))
    /\ ppc \in {"check", "sleep", "read", "stalled", "backoff"} =>
          accepted = StreamBytes(0, srcPos)
    /\ exitReason \in {"eof", "readerr"} =>
          accepted = StreamBytes(0, srcPos)

\* ---------------------------------------------------------------- C38
\* C38: after BufferManager.Close was called, prefetchLoop eventually
\* returns and its deferred function has run, also when the context is
\* never cancelled; here for a prefetchLoop that was throttling (in the
\* sleep of line 76) when Close returned.
C38_CloseEndsPrefetch ==
    (cpc = "done" /\ ppc = "sleep" /\ ~cancelled) ~>
        (ppc = "done" \/ cancelled)

\* ---------------------------------------------------------------- C39
\* C39: with the session's single consumer and min_threshold >= 1, once
\* WaitForData has returned nil the CircularBuffer.Read that follows returns
\* at least one byte and never waits in cond.Wait: the value the consumer
\* got from Available() without b.mu is at least the threshold and at most
\* the bytes in the buffer, whatever prefetchLoop writes meanwhile.
C39_ReadAfterWaitHasData ==
    minThreshold >= 1 =>
        /\ cpc = "reading" =>
              /\ wfdRet = "nil"
              /\ obsAvail >= minThreshold
              /\ obsAvail <= Available(writePos, readPos)
        /\ cpc \notin {"parked", "woken"}
        /\ (cpc = "rret" /\ wfdRet = "nil") =>
              /\ cret.err = "nil"
              /\ cret.n >= 1
              /\ cret.n >= Min(obsAvail, clen)

\* Read returned more bytes than the Available() of WaitForData had seen:
\* prefetchLoop, still active, wrote in between
C39_Witness ==
    /\ minThreshold >= 1
    /\ cpc = "rret" /\ wfdRet = "nil"
    /\ cret.err = "nil" /\ cret.n > obsAvail
    /\ prefetchActive

\* ------------------------------------------------- SpecRefresher: Refresher
\* scheduleNextRefresh line 240, in minutes
FiveMinutes == 5

\* Refresher.scheduleNextRefresh: the interval after a refresh that returned
\* lastError (failed says lastError != nil)
ScheduleNextRefresh(interval, failed) ==
    IF ~failed
    THEN interval
    ELSE Min(interval \div 2, FiveMinutes)

\* Refresher.Start lines 207-210: the period of the ticker after a refresh;
\* ticker.Reset is called only for an interval other than r.interval
TickerAfter(period, interval, nextInterval) ==
    IF nextInterval # interval THEN nextInterval ELSE period

\* NewRefresher and Start line 196: time.NewTicker(r.interval). The interval
\* is positive (Config.Validate) and long enough to be halved
InitRefresher ==
    /\ InitBuffer /\ InitManager
    /\ ppc = "idle" /\ cpc = "idle"
    /\ minThreshold = 0 /\ ratioNum = 0 /\ srcLen = 0
    /\ maxRetries = 0
    /\ hasStdin = FALSE
    /\ InitTranscoder
    /\ InitNoHardware
    /\ InitNoCommand /\ InitNoRequest
    /\ plData = <<>> /\ plResult = NoResult
    /\ \E i \in 2..MaxInterval :
          refresher = [interval |-> i, period |-> i, refreshes |-> 0,
                       fetched |-> 0, stored |-> 0, err |-> "none",
                       running |-> TRUE]

\* Start lines 204-210 with refresh and scheduleNextRefresh: the ticker
\* fires; FetchAll fails or succeeds, and only a success updates the store
RefreshTick ==
    /\ refresher.running
    /\ refresher.refreshes < MaxRefreshes
    /\ \E failed \in BOOLEAN :
          refresher' =
             [refresher EXCEPT
                !.refreshes = @ + 1,
                !.fetched = IF failed THEN @ ELSE @ + 1,
                !.stored = IF failed THEN @ ELSE @ + 1,
                !.err = IF failed THEN "error" ELSE "nil",
                !.period = TickerAfter(@, refresher.interval,
                              ScheduleNextRefresh(refresher.interval, failed))]
    /\ UNCHANGED <<plData, plResult>>
    /\ UNCHANGED <<ringVars, ringLocals, ppc, cpc, srcPos, sessVars, raceVars,
                   retryVars, starved, lateRead, proc, tcVars, hwVars,
                   cmdVars, reqVars>>

\* Start lines 201-203: the context is done, Start returns
RefresherStop ==
    /\ refresher.running
    /\ refresher' = [refresher EXCEPT !.running = FALSE]
    /\ UNCHANGED <<plData, plResult>>
    /\ UNCHANGED <<ringVars, ringLocals, ppc, cpc, srcPos, sessVars, raceVars,
                   retryVars, starved, lateRead, proc, tcVars, hwVars,
                   cmdVars, reqVars>>

NextRefresher == RefreshTick \/ RefresherStop

SpecRefresher == InitRefresher /\ [][NextRefresher]_vars

\* ---------------------------------------------------------------- C40
\* C40: once a failed refresh has put the ticker on the backoff interval,
\* the first later successful refresh puts it back on the configured
\* interval for the refreshes that follow (after a successful refresh the
\* ticker's period is r.interval), and the store is updated by successful
\* refreshes only.
C40_IntervalRestored ==
    /\ refresher.err = "nil" => refresher.period = refresher.interval
    /\ refresher.stored = refresher.fetched

=============================================================================
